---- MODULE Spec2Model ----
(***************************************************************************)
(* A model of envyr's source fetcher (src/envyr/adapters/git.rs), of its   *)
(* manifest builder and generator (src/envyr/package.rs, utils.rs,         *)
(* meta.rs, docker.rs), of the alias map (meta.rs), of one invocation of   *)
(* `envyr run` (src/main.rs, src/envyr/docker.rs) and of two invocations   *)
(* that fetch the same repository at the same time.                        *)
(*                                                                         *)
(* Strings are TLA+ strings; TLC evaluates Len, \o, SubSeq, Head and Tail  *)
(* on them, so the parsing code is modelled character by character.        *)
(***************************************************************************)
EXTENDS Integers, Sequences, FiniteSets, TLC

VARIABLES
    \* ---- cache-key derivation (get_storage_path applied to locators) ----
    kHost, kOrg, kProject,  \* the repository the locators name
    kOut                    \* locator style -> Result of get_storage_path

keyVars == <<kHost, kOrg, kProject, kOut>>

VARIABLES
    \* ---- GitFetcher::fetch: the cache, the remote and the call in progress ----
    remote,     \* the remote repository: default branch, branches, tags
    repos,      \* cache path -> working tree cloned there: HEAD and known tags
    dirs,       \* directories created under the cache root besides the clones
    fPc,        \* position of the fetch in progress
    fUrl, fVersion, fRefresh,   \* its arguments
    fPath,      \* its `path` (the joined storage path), "" before it is derived
    fExisted,   \* whether path.exists() held when it was tested
    fHead0,     \* HEAD of the cache entry when the fetch began, "" if it had none
    fBranch,    \* `branch` of swap_back_to_latest
    fLog,       \* the subprocesses and directory creations issued by this fetch
    fResult,    \* its return value, None while it runs
    fOther      \* the fetch of a second invocation of the tool, while it is not running

fetchVars == <<remote, repos, dirs, fPc, fUrl, fVersion, fRefresh, fPath,
               fExisted, fHead0, fBranch, fLog, fResult, fOther>>

VARIABLES
    \* ---- generate: Pack::builder, override_builder_opts, PackBuilder::build ----
    bRoot,      \* the canonical project root
    bFiles,     \* the regular files below it, in the order the walk yields them
    bPkg,       \* the state of package.json at the root
    bReq,       \* whether requirements.txt exists at the root
    bArgs,      \* the OverrideOpts of the command line
    bPc,        \* position of generate
    builder,    \* the PackBuilder
    bResult,    \* the Result<Pack> of build, None before it
    bDetect,    \* what check_bash_dependencies returned, None if build did not call it
    bDisk,      \* <root>/.envyr, its meta.json and Dockerfile, and <root>/.dockerignore
    bExit       \* the Result that generate returns, None while it runs

buildVars == <<bRoot, bFiles, bPkg, bReq, bArgs, bPc, builder, bResult,
               bDetect, bDisk, bExit>>

VARIABLES
    \* ---- the alias map: load_aliases, store_alias, remove_alias ----
    aliasFile,  \* <cache-root>/aliases.json: None if absent, else Some(its JSON object)
    aliasOps    \* the store_alias and remove_alias calls made so far

aliasVars == <<aliasFile, aliasOps>>

VARIABLES
    \* ---- one invocation of `envyr run`: main, run, docker::run, build_local ----
    rPc,        \* position of the invocation
    rArgs,      \* the command line: project_root, alias, refresh, autogen, timeout, executor
    rConfig,    \* the RunConfig that is run, None before it is chosen
    rFromAlias, \* whether get_alias_config found project_root in the alias map
    rFetcher,   \* the fetcher that get_fetcher selected, "" before it is called
    rBuildProc, \* the image build subprocess
    rContainer, \* the container subprocess
    rElapsed,   \* the wait_timeout that returned None, "" if none did
    rResult     \* what main returns, None while it runs

runVars == <<rPc, rArgs, rConfig, rFromAlias, rFetcher, rBuildProc, rContainer,
             rElapsed, rResult>>

vars == <<keyVars, fetchVars, buildVars, aliasVars, runVars>>

notKeyVars == <<fetchVars, buildVars, aliasVars, runVars>>
notFetchVars == <<keyVars, buildVars, aliasVars, runVars, fOther>>
notBuildVars == <<keyVars, fetchVars, aliasVars, runVars>>
notAliasVars == <<keyVars, fetchVars, buildVars, runVars>>
notRunVars == <<keyVars, fetchVars, buildVars>>

(***************************************************************************)
(* Option and Result values of the Rust code.                              *)
(***************************************************************************)
None == [tag |-> "None"]
Some(x) == [tag |-> "Some", val |-> x]
Ok(x) == [tag |-> "Ok", val |-> x]
Err(e) == [tag |-> "Err", err |-> e]
IsOk(r) == r.tag = "Ok"
IsErr(r) == r.tag = "Err"

\* Result::unwrap_or, Result::unwrap_or_default
unwrap_or_result(r, d) == IF r.tag = "Ok" THEN r.val ELSE d

\* the alias map's variables, at rest while another part of the program runs
AliasIdle ==
    /\ aliasFile = None
    /\ aliasOps = <<>>

\* the variables of `envyr run`, at rest while another part of the program runs
RunIdle ==
    /\ rPc = "idle"
    /\ rArgs = None
    /\ rConfig = None
    /\ rFromAlias = FALSE
    /\ rFetcher = ""
    /\ rBuildProc = "none"
    /\ rContainer = "none"
    /\ rElapsed = ""
    /\ rResult = None

\* a project root in which nothing has been generated yet
DiskAbsent == [dir |-> FALSE, meta |-> None, dockerfile |-> None, dockerignore |-> None]

\* the builder's variables, at rest while another part of the program runs
BuildIdle ==
    /\ bRoot = "/"
    /\ bFiles = <<>>
    /\ bPkg = "missing"
    /\ bReq = FALSE
    /\ bArgs = None
    /\ bPc = "idle"
    /\ builder = None
    /\ bResult = None
    /\ bDetect = None
    /\ bDisk = DiskAbsent
    /\ bExit = None

(***************************************************************************)
(* str primitives used by the parsing code.                                *)
(***************************************************************************)
StartsWith(s, p) == Len(s) >= Len(p) /\ SubSeq(s, 1, Len(p)) = p
EndsWith(s, p) == Len(s) >= Len(p) /\ SubSeq(s, Len(s) - Len(p) + 1, Len(s)) = p

\* str::strip_prefix / str::strip_suffix: Some(rest) or None
strip_prefix(s, p) ==
    IF StartsWith(s, p) THEN Some(SubSeq(s, Len(p) + 1, Len(s))) ELSE None
strip_suffix(s, p) ==
    IF EndsWith(s, p) THEN Some(SubSeq(s, 1, Len(s) - Len(p))) ELSE None

\* Option::unwrap_or
unwrap_or(o, d) == IF o.tag = "Some" THEN o.val ELSE d

\* index of the first occurrence of the character c in s at or after i, 0 when absent
RECURSIVE IndexFrom(_, _, _)
IndexFrom(s, c, i) ==
    IF i > Len(s) THEN 0
    ELSE IF SubSeq(s, i, i) = c THEN i
    ELSE IndexFrom(s, c, i + 1)

IndexOf(s, c) == IndexFrom(s, c, 1)

\* str::split(c) collected: the pieces between occurrences of c; never empty
RECURSIVE Split(_, _)
Split(s, c) ==
    LET i == IndexOf(s, c) IN
    IF i = 0 THEN <<s>>
    ELSE <<SubSeq(s, 1, i - 1)>> \o Split(SubSeq(s, i + 1, Len(s)), c)

\* Iterator::next on a fresh iterator, Iterator::last, DoubleEndedIterator::nth_back
IterNext(xs) == IF Len(xs) = 0 THEN None ELSE Some(xs[1])
IterLast(xs) == IF Len(xs) = 0 THEN None ELSE Some(xs[Len(xs)])
IterNthBack(xs, n) == IF Len(xs) <= n THEN None ELSE Some(xs[Len(xs) - n])

\* str::trim: leading and trailing whitespace removed
Whitespace == {" ", "\t", "\n", "\r"}
RECURSIVE TrimStart(_)
TrimStart(s) ==
    IF Len(s) > 0 /\ Head(s) \in Whitespace THEN TrimStart(Tail(s)) ELSE s
RECURSIVE TrimEnd(_)
TrimEnd(s) ==
    IF Len(s) > 0 /\ SubSeq(s, Len(s), Len(s)) \in Whitespace
    THEN TrimEnd(SubSeq(s, 1, Len(s) - 1)) ELSE s
Trim(s) == TrimEnd(TrimStart(s))

\* PathBuf::join: an absolute component replaces the path
PathJoin(p, c) ==
    IF StartsWith(c, "/") THEN c
    ELSE IF p = "" \/ EndsWith(p, "/") THEN p \o c
    ELSE p \o "/" \o c

(***************************************************************************)
(* Cache-key derivation, git.rs:167-219.                                   *)
(***************************************************************************)
get_git_provider_SshOnly(url) ==
    LET u == unwrap_or(strip_suffix(url, ".git"), url)
        first == IterNext(Split(u, ":"))
    IN  IF first.tag = "None" THEN Err("parse provider")
        ELSE Ok(unwrap_or(IterLast(Split(first.val, "@")), first.val))

get_git_provider(url) ==
    LET u == unwrap_or(strip_suffix(url, ".git"), url)
        https == strip_prefix(u, "https://")
        rest == IF https.tag = "Some" THEN https ELSE strip_prefix(u, "http://")
    IN  IF rest.tag = "Some"
        THEN LET hostname == IterNext(Split(rest.val, "/"))
             IN  IF hostname.tag = "None" THEN Err("parse hostname")
                 ELSE Ok(hostname.val)
        ELSE LET first == IterNext(Split(u, ":"))
             IN  IF first.tag = "None" THEN Err("parse provider")
                 ELSE Ok(unwrap_or(IterLast(Split(first.val, "@")), first.val))

get_org_name_Unwrap(url) ==
    LET u == unwrap_or(strip_suffix(url, ".git"), url)
        pieces == Split(u, "/")
        name == IF Len(pieces) >= 2 THEN pieces[Len(pieces) - 1] ELSE pieces[Len(pieces)]
    IN  Ok(unwrap_or(IterLast(Split(name, ":")), name))

get_org_name(url) ==
    LET u == unwrap_or(strip_suffix(url, ".git"), url)
        name == IterNthBack(Split(u, "/"), 1)
    IN  IF name.tag = "None" THEN Err("parse org name")
        ELSE LET last == IterLast(Split(name.val, ":"))
             IN  IF last.tag = "None" THEN Err("parse org name")
                 ELSE Ok(last.val)

get_project_name_NoStrip(url) ==
    LET name == IterLast(Split(url, "/"))
    IN  IF name.tag = "None" THEN Err("parse project name") ELSE Ok(name.val)

get_project_name(url) ==
    LET u == unwrap_or(strip_suffix(url, ".git"), url)
        name == IterLast(Split(u, "/"))
    IN  IF name.tag = "None" THEN Err("parse project name") ELSE Ok(name.val)

\* the three `?` of get_storage_path are evaluated left to right
get_storage_path(url) ==
    LET provider == get_git_provider(url)
        org == get_org_name(url)
        project == get_project_name(url)
    IN  IF IsErr(provider) THEN provider
        ELSE IF IsErr(org) THEN org
        ELSE IF IsErr(project) THEN project
        ELSE Ok(PathJoin(PathJoin(PathJoin("", provider.val), org.val), project.val))

(***************************************************************************)
(* Locators of one repository in the styles the fetcher accepts.           *)
(***************************************************************************)
MaxNameLen == 2

NameFirst == {"a", "b"}
NameRest == {"a", "."}

\* names of hosts, organisations and projects: no separator, first character
\* a letter, at most MaxNameLen characters
RECURSIVE NamesOfLen(_)
NamesOfLen(n) ==
    IF n = 1 THEN NameFirst
    ELSE {s \o c : s \in NamesOfLen(n - 1), c \in NameRest}

Names == UNION {NamesOfLen(n) : n \in 1..MaxNameLen}

Styles == {"ssh_git", "ssh", "https_git", "https", "http_git", "http"}

Locator(style, host, org, project) ==
    CASE style = "ssh_git"   -> "git@" \o host \o ":" \o org \o "/" \o project \o ".git"
      [] style = "ssh"       -> "git@" \o host \o ":" \o org \o "/" \o project
      [] style = "https_git" -> "https://" \o host \o "/" \o org \o "/" \o project \o ".git"
      [] style = "https"     -> "https://" \o host \o "/" \o org \o "/" \o project
      [] style = "http_git"  -> "http://" \o host \o "/" \o org \o "/" \o project \o ".git"
      [] style = "http"      -> "http://" \o host \o "/" \o org \o "/" \o project

(***************************************************************************)
(* GitFetcher::fetch, git.rs:22-165.  One action per subprocess the code   *)
(* spawns; the exit of each subprocess is an input of the action:          *)
(*   "ok"        it ran and exited zero                                    *)
(*   "fail"      it ran and exited non-zero                                *)
(*   "spawn_err" Command::output() itself returned an io::Error            *)
(* A git command can exit zero only if git could do what was asked; it can *)
(* fail for reasons outside the model (network, a dirty working tree).     *)
(***************************************************************************)
Outcomes == {"ok", "fail", "spawn_err"}

BranchNames == {"main", "master", "trunk"}
Tags == {"v1", "v2"}

\* shapes of the remote repository: its default branch among its branches
RemoteShapes ==
    { [default |-> "main",   branches |-> {"main"}],
      [default |-> "master", branches |-> {"master"}],
      [default |-> "trunk",  branches |-> {"trunk"}],
      [default |-> "trunk",  branches |-> {"trunk", "main"}] }

\* the repository fetched in the model, and the locators handed to fetch:
\* two that name it and two with no '/' separator
TheHost == "h.io"
TheOrg == "o"
TheProject == "p"
FetchLocators ==
    { Locator("ssh_git", TheHost, TheOrg, TheProject),
      Locator("https", TheHost, TheOrg, TheProject),
      "git@" \o TheHost \o ":" \o TheProject \o ".git",
      "no-slash-here" }

Versions == {"latest"} \cup Tags \cup {"main"}

HasSlash(s) == \E i \in 1..Len(s) : SubSeq(s, i, i) = "/"

\* Path::parent of a relative path: the text before the last '/'
PathParent(p) ==
    LET pieces == Split(p, "/") IN
    IF Len(pieces) <= 1 THEN ""
    ELSE SubSeq(p, 1, Len(p) - Len(pieces[Len(pieces)]) - 1)

\* an entry of fLog
Issued(fn, argv, status) == [fn |-> fn, argv |-> argv, status |-> status]

\* what `git checkout <name>` can resolve in a working tree
Resolvable(repo, name) == name \in repo.tags \/ name \in remote.branches

\* the local variables of an invocation that has not called fetch
IdleLocals ==
    [pc |-> "idle", url |-> "", version |-> "latest", refresh |-> FALSE, path |-> "",
     existed |-> FALSE, head0 |-> "", branch |-> "", log |-> <<>>, result |-> None]

\* the fetcher's variables, at rest while another part of the program runs
FetchIdle ==
    /\ remote \in [default : {"main"}, branches : {{"main"}}, tags : {{}}]
    /\ repos = <<>>
    /\ dirs = {}
    /\ fPc = "idle"
    /\ fUrl = ""
    /\ fVersion = "latest"
    /\ fRefresh = FALSE
    /\ fPath = ""
    /\ fExisted = FALSE
    /\ fHead0 = ""
    /\ fBranch = ""
    /\ fLog = <<>>
    /\ fResult = None
    /\ fOther = IdleLocals

\* the key-derivation variables, at rest while the fetcher runs
KeyIdle ==
    /\ kHost = TheHost
    /\ kOrg = TheOrg
    /\ kProject = TheProject
    /\ kOut = [s \in Styles |-> [tag |-> "NotDerived"]]

FetchInit ==
    /\ KeyIdle
    /\ BuildIdle
    /\ AliasIdle
    /\ RunIdle
    /\ \E shape \in RemoteShapes, tags \in SUBSET Tags :
          remote = [default |-> shape.default, branches |-> shape.branches, tags |-> tags]
    /\ repos = <<>>
    /\ dirs = {}
    /\ fPc = "idle"
    /\ fUrl = ""
    /\ fVersion = "latest"
    /\ fRefresh = FALSE
    /\ fPath = ""
    /\ fExisted = FALSE
    /\ fHead0 = ""
    /\ fBranch = ""
    /\ fLog = <<>>
    /\ fResult = None
    /\ fOther = IdleLocals

\* fetch returns: line 38 (Ok) or one of the `?` (Err)
Return(result) ==
    /\ fPc' = "done"
    /\ fResult' = result

\* git.rs:28: after swap_back_to_latest returned Ok
AfterRestore_AlwaysPull(refresh) == "pull"

AfterRestore(refresh) == IF refresh THEN "pull" ELSE "checkout"

\* git.rs:27: the `?` on swap_back_to_latest, when it returned Err
RestoreFailed_Ignored(e) ==
    /\ fPc' = AfterRestore(fRefresh)
    /\ fResult' = None

RestoreFailed(e) == Return(Err(e))

\* a fetch that restores the default branch only when it is going to pull
FetchCall_RestoreOnlyOnRefresh(url, version, refresh) ==
    /\ UNCHANGED notFetchVars
    /\ fPc = "idle"
    /\ fUrl' = url
    /\ fVersion' = version
    /\ fRefresh' = refresh
    /\ fLog' = <<>>
    /\ fBranch' = ""
    /\ LET key == get_storage_path(url) IN
       IF IsErr(key)
       THEN /\ Return(key)
            /\ fPath' = ""
            /\ fExisted' = FALSE
            /\ fHead0' = ""
       ELSE /\ fPath' = key.val
            /\ fExisted' = (key.val \in DOMAIN repos)
            /\ fHead0' = IF key.val \in DOMAIN repos THEN repos[key.val].head ELSE ""
            /\ fPc' = IF key.val \in DOMAIN repos
                      THEN (IF refresh THEN "swap_symref" ELSE "checkout")
                      ELSE "clone"
            /\ fResult' = None
    /\ UNCHANGED <<remote, repos, dirs>>

\* git.rs:23-25,33: with `key` the Result of get_storage_path(url), the `?`
\* on it and the test of the target directory
FetchCallKeyed(key, url, version, refresh) ==
    /\ UNCHANGED notFetchVars
    /\ fPc = "idle"
    /\ fUrl' = url
    /\ fVersion' = version
    /\ fRefresh' = refresh
    /\ fLog' = <<>>
    /\ fBranch' = ""
    /\ IF IsErr(key)
       THEN /\ Return(key)
            /\ fPath' = ""
            /\ fExisted' = FALSE
            /\ fHead0' = ""
       ELSE /\ fPath' = key.val
            /\ fExisted' = (key.val \in DOMAIN repos)
            /\ fHead0' = IF key.val \in DOMAIN repos THEN repos[key.val].head ELSE ""
            /\ fPc' = IF key.val \in DOMAIN repos THEN "swap_symref" ELSE "clone"
            /\ fResult' = None
    /\ UNCHANGED <<remote, repos, dirs>>

\* git.rs:22-25,33: the key is derived and the target directory tested
FetchCall(url, version, refresh) ==
    \E key \in {get_storage_path(url)} : FetchCallKeyed(key, url, version, refresh)

\* git.rs:126-133: git symbolic-ref refs/remotes/origin/HEAD --short
SwapSymbolicRef(outcome) ==
    /\ UNCHANGED notFetchVars
    /\ fPc = "swap_symref"
    /\ fLog' = Append(fLog, Issued("swap_back_to_latest",
                                   <<"symbolic-ref", "refs/remotes/origin/HEAD", "--short">>,
                                   outcome))
    /\ IF outcome = "ok"
       THEN LET stdout == "origin/" \o remote.default \o "\n"
                branch == Trim(stdout)
            IN  /\ fBranch' = unwrap_or(strip_prefix(branch, "origin/"), branch)
                /\ fPc' = "swap_head"
       ELSE /\ fBranch' = fBranch
            /\ fPc' = "swap_main"
    /\ UNCHANGED <<remote, repos, dirs, fUrl, fVersion, fRefresh, fPath, fExisted, fHead0, fResult>>

\* one `git checkout <branch>` of swap_back_to_latest and what follows it:
\* spawn error -> `?`; exit zero -> return Ok(()); otherwise go on to `orElse`,
\* or return the final Err when there is no further attempt
RestoreCheckout(branch, outcome, orElse) ==
    /\ UNCHANGED notFetchVars
    /\ outcome = "ok" => Resolvable(repos[fPath], branch)
    /\ fLog' = Append(fLog, Issued("swap_back_to_latest", <<"checkout", branch>>, outcome))
    /\ CASE outcome = "spawn_err" ->
              /\ RestoreFailed("io error")
              /\ UNCHANGED repos
         [] outcome = "ok" ->
              /\ repos' = [repos EXCEPT ![fPath].head = branch]
              /\ fPc' = AfterRestore(fRefresh)
              /\ fResult' = None
         [] outcome = "fail" ->
              /\ UNCHANGED repos
              /\ IF orElse = "error"
                 THEN RestoreFailed("Failed to checkout default branch")
                 ELSE /\ fPc' = orElse
                      /\ fResult' = None
    /\ UNCHANGED <<remote, dirs, fUrl, fVersion, fRefresh, fPath, fExisted, fHead0, fBranch>>

\* a restore that goes from the detected branch straight to `master`
SwapCheckoutHead_SkipsMain(outcome) ==
    /\ fPc = "swap_head"
    /\ RestoreCheckout(fBranch, outcome, "swap_master")

\* git.rs:134-141
SwapCheckoutHead(outcome) ==
    /\ fPc = "swap_head"
    /\ RestoreCheckout(fBranch, outcome, "swap_main")

\* git.rs:145-151
SwapCheckoutMain(outcome) ==
    /\ fPc = "swap_main"
    /\ RestoreCheckout("main", outcome, "swap_master")

\* git.rs:153-164
SwapCheckoutMaster(outcome) ==
    /\ fPc = "swap_master"
    /\ RestoreCheckout("master", outcome, "error")

\* a pull that is tried a second time when it exits non-zero
PullRepo_RetryOnce(outcome) ==
    /\ UNCHANGED notFetchVars
    /\ fPc = "pull"
    /\ outcome = "ok" => repos[fPath].head \in remote.branches
    /\ fLog' = Append(fLog, Issued("pull_repo", <<"pull">>, outcome))
    /\ CASE outcome = "spawn_err" ->
              /\ Return(Err("io error"))
              /\ UNCHANGED repos
         [] outcome = "fail" ->
              /\ UNCHANGED repos
              /\ IF \E i \in 1..Len(fLog) : fLog[i].fn = "pull_repo"
                 THEN Return(Err("Failed to pull git repository"))
                 ELSE /\ fPc' = "pull"
                      /\ fResult' = None
         [] outcome = "ok" ->
              /\ \E got \in SUBSET remote.tags :
                    repos' = [repos EXCEPT ![fPath].tags = @ \cup got]
              /\ fPc' = "tags"
              /\ fResult' = None
    /\ UNCHANGED <<remote, dirs, fUrl, fVersion, fRefresh, fPath, fExisted, fHead0, fBranch>>

\* a pull that puts HEAD back where it was before the fetch when it fails
PullRepo_RollsBack(outcome) ==
    /\ UNCHANGED notFetchVars
    /\ fPc = "pull"
    /\ outcome = "ok" => repos[fPath].head \in remote.branches
    /\ fLog' = Append(fLog, Issued("pull_repo", <<"pull">>, outcome))
    /\ CASE outcome = "spawn_err" ->
              /\ Return(Err("io error"))
              /\ UNCHANGED repos
         [] outcome = "fail" ->
              /\ Return(Err("Failed to pull git repository"))
              /\ repos' = [repos EXCEPT ![fPath].head = fHead0]
         [] outcome = "ok" ->
              /\ \E got \in SUBSET remote.tags :
                    repos' = [repos EXCEPT ![fPath].tags = @ \cup got]
              /\ fPc' = "tags"
              /\ fResult' = None
    /\ UNCHANGED <<remote, dirs, fUrl, fVersion, fRefresh, fPath, fExisted, fHead0, fBranch>>

\* git.rs:29,42-54: git pull.  It needs HEAD on a branch; it may bring tags
\* that point into the history it fetched.
PullRepo(outcome) ==
    /\ UNCHANGED notFetchVars
    /\ fPc = "pull"
    /\ outcome = "ok" => repos[fPath].head \in remote.branches
    /\ fLog' = Append(fLog, Issued("pull_repo", <<"pull">>, outcome))
    /\ CASE outcome = "spawn_err" ->
              /\ Return(Err("io error"))
              /\ UNCHANGED repos
         [] outcome = "fail" ->
              /\ Return(Err("Failed to pull git repository"))
              /\ UNCHANGED repos
         [] outcome = "ok" ->
              /\ \E got \in SUBSET remote.tags :
                    repos' = [repos EXCEPT ![fPath].tags = @ \cup got]
              /\ fPc' = "tags"
              /\ fResult' = None
    /\ UNCHANGED <<remote, dirs, fUrl, fVersion, fRefresh, fPath, fExisted, fHead0, fBranch>>

\* a fetch_tags that goes on to the checkout when git fetch --tags exits non-zero
FetchTags_FailureIgnored(outcome) ==
    /\ UNCHANGED notFetchVars
    /\ fPc = "tags"
    /\ fLog' = Append(fLog, Issued("fetch_tags", <<"fetch", "--tags">>, outcome))
    /\ CASE outcome = "spawn_err" ->
              /\ Return(Err("io error"))
              /\ UNCHANGED repos
         [] outcome = "fail" ->
              /\ fPc' = "checkout"
              /\ fResult' = None
              /\ UNCHANGED repos
         [] outcome = "ok" ->
              /\ repos' = [repos EXCEPT ![fPath].tags = @ \cup remote.tags]
              /\ fPc' = "checkout"
              /\ fResult' = None
    /\ UNCHANGED <<remote, dirs, fUrl, fVersion, fRefresh, fPath, fExisted, fHead0, fBranch>>

\* git.rs:30,35,56-70: git fetch --tags
FetchTags(outcome) ==
    /\ UNCHANGED notFetchVars
    /\ fPc = "tags"
    /\ fLog' = Append(fLog, Issued("fetch_tags", <<"fetch", "--tags">>, outcome))
    /\ CASE outcome = "spawn_err" ->
              /\ Return(Err("io error"))
              /\ UNCHANGED repos
         [] outcome = "fail" ->
              /\ Return(Err("Failed to fetch tags"))
              /\ UNCHANGED repos
         [] outcome = "ok" ->
              /\ repos' = [repos EXCEPT ![fPath].tags = @ \cup remote.tags]
              /\ fPc' = "checkout"
              /\ fResult' = None
    /\ UNCHANGED <<remote, dirs, fUrl, fVersion, fRefresh, fPath, fExisted, fHead0, fBranch>>

\* a checkout_version that never runs git
CheckoutVersion_NeverCheckout(outcome) ==
    /\ UNCHANGED notFetchVars
    /\ fPc = "checkout"
    /\ outcome = "ok"
    /\ Return(Ok(fPath))
    /\ UNCHANGED <<remote, repos, dirs, fUrl, fVersion, fRefresh, fPath, fExisted, fHead0, fBranch, fLog>>

\* git.rs:32,36,72-89 and the Ok(path) of line 38
CheckoutVersion(outcome) ==
    /\ UNCHANGED notFetchVars
    /\ fPc = "checkout"
    /\ IF fVersion # "latest"
       THEN /\ outcome = "ok" => Resolvable(repos[fPath], fVersion)
            /\ fLog' = Append(fLog, Issued("checkout_version", <<"checkout", fVersion>>, outcome))
            /\ CASE outcome = "spawn_err" ->
                      /\ Return(Err("io error"))
                      /\ UNCHANGED repos
                 [] outcome = "fail" ->
                      /\ Return(Err("Failed to checkout version"))
                      /\ UNCHANGED repos
                 [] outcome = "ok" ->
                      /\ repos' = [repos EXCEPT ![fPath].head = fVersion]
                      /\ Return(Ok(fPath))
       ELSE /\ outcome = "ok"
            /\ Return(Ok(fPath))
            /\ UNCHANGED <<repos, fLog>>
    /\ UNCHANGED <<remote, dirs, fUrl, fVersion, fRefresh, fPath, fExisted, fHead0, fBranch>>

\* a clone that is followed by a pull when refresh is set
CloneRepo_ThenPullOnRefresh(outcome) ==
    /\ UNCHANGED notFetchVars
    /\ fPc = "clone"
    /\ outcome = "ok" => fPath \notin DOMAIN repos
    /\ LET parent == PathParent(fPath)
           mkdir == IF parent \in dirs THEN <<>>
                    ELSE <<Issued("clone_repo", <<"create_dir_all", parent>>, "ok")>>
       IN  /\ dirs' = dirs \cup {parent}
           /\ fLog' = fLog \o mkdir \o <<Issued("clone_repo", <<"clone", fUrl, fPath>>, outcome)>>
    /\ CASE outcome = "spawn_err" ->
              /\ Return(Err("io error"))
              /\ UNCHANGED repos
         [] outcome = "fail" ->
              /\ Return(Err("Failed to clone git repository"))
              /\ UNCHANGED repos
         [] outcome = "ok" ->
              /\ \E got \in SUBSET remote.tags :
                    repos' = [p \in DOMAIN repos \cup {fPath} |->
                                IF p = fPath
                                THEN [head |-> remote.default, tags |-> got]
                                ELSE repos[p]]
              /\ fPc' = IF fRefresh THEN "pull" ELSE "tags"
              /\ fResult' = None
    /\ UNCHANGED <<remote, fUrl, fVersion, fRefresh, fPath, fExisted, fHead0, fBranch>>

\* git.rs:34,91-120: create_dir_all on the parent, then git clone <url> <path>.
\* A clone leaves HEAD on the remote's default branch and brings the tags that
\* point into the history it fetched; git refuses to clone into a directory
\* that holds a working tree already.
CloneRepo(outcome) ==
    /\ UNCHANGED notFetchVars
    /\ fPc = "clone"
    /\ outcome = "ok" => fPath \notin DOMAIN repos
    /\ LET parent == PathParent(fPath)
           mkdir == IF parent \in dirs THEN <<>>
                    ELSE <<Issued("clone_repo", <<"create_dir_all", parent>>, "ok")>>
       IN  /\ dirs' = dirs \cup {parent}
           /\ fLog' = fLog \o mkdir \o <<Issued("clone_repo", <<"clone", fUrl, fPath>>, outcome)>>
    /\ CASE outcome = "spawn_err" ->
              /\ Return(Err("io error"))
              /\ UNCHANGED repos
         [] outcome = "fail" ->
              /\ Return(Err("Failed to clone git repository"))
              /\ UNCHANGED repos
         [] outcome = "ok" ->
              /\ \E got \in SUBSET remote.tags :
                    repos' = [p \in DOMAIN repos \cup {fPath} |->
                                IF p = fPath
                                THEN [head |-> remote.default, tags |-> got]
                                ELSE repos[p]]
              /\ fPc' = "tags"
              /\ fResult' = None
    /\ UNCHANGED <<remote, fUrl, fVersion, fRefresh, fPath, fExisted, fHead0, fBranch>>

\* main.rs:186-200: the caller has the result and the invocation ends; the
\* next invocation of the tool finds the cache as this one left it
FetchExit ==
    /\ UNCHANGED notFetchVars
    /\ fPc = "done"
    /\ fPc' = "idle"
    /\ fUrl' = ""
    /\ fVersion' = "latest"
    /\ fRefresh' = FALSE
    /\ fPath' = ""
    /\ fExisted' = FALSE
    /\ fHead0' = ""
    /\ fBranch' = ""
    /\ fLog' = <<>>
    /\ fResult' = None
    /\ UNCHANGED <<remote, repos, dirs>>

\* the environment: somebody pushes a tag to the remote
RemotePushTag(t) ==
    /\ UNCHANGED notFetchVars
    /\ t \notin remote.tags
    /\ remote' = [remote EXCEPT !.tags = @ \cup {t}]
    /\ UNCHANGED <<repos, dirs, fPc, fUrl, fVersion, fRefresh, fPath, fExisted,
                   fHead0, fBranch, fLog, fResult>>

FetchNext ==
    \/ \E url \in FetchLocators, version \in Versions, refresh \in BOOLEAN :
          FetchCall(url, version, refresh)
    \/ \E outcome \in Outcomes : SwapSymbolicRef(outcome)
    \/ \E outcome \in Outcomes : SwapCheckoutHead(outcome)
    \/ \E outcome \in Outcomes : SwapCheckoutMain(outcome)
    \/ \E outcome \in Outcomes : SwapCheckoutMaster(outcome)
    \/ \E outcome \in Outcomes : PullRepo(outcome)
    \/ \E outcome \in Outcomes : FetchTags(outcome)
    \/ \E outcome \in Outcomes : CheckoutVersion(outcome)
    \/ \E outcome \in Outcomes : CloneRepo(outcome)
    \/ FetchExit
    \/ \E t \in Tags : RemotePushTag(t)

SpecFetch == FetchInit /\ [][FetchNext]_vars

(***************************************************************************)
(* Two invocations of the tool that fetch the same locator.  Each runs     *)
(* GitFetcher::fetch in a process of its own; the processes share the      *)
(* cache directory and nothing else, and fetch takes no lock (git.rs:22-   *)
(* 39), so the operating system may run a step of either process at any    *)
(* time.  The variables fPc .. fResult belong to the process whose step is *)
(* taken next, fOther to the other one.                                    *)
(***************************************************************************)
Locals ==
    [pc |-> fPc, url |-> fUrl, version |-> fVersion, refresh |-> fRefresh, path |-> fPath,
     existed |-> fExisted, head0 |-> fHead0, branch |-> fBranch, log |-> fLog,
     result |-> fResult]

\* the other process is scheduled
Switch ==
    /\ UNCHANGED <<keyVars, buildVars, aliasVars, runVars>>
    /\ fOther' = Locals
    /\ fPc' = fOther.pc
    /\ fUrl' = fOther.url
    /\ fVersion' = fOther.version
    /\ fRefresh' = fOther.refresh
    /\ fPath' = fOther.path
    /\ fExisted' = fOther.existed
    /\ fHead0' = fOther.head0
    /\ fBranch' = fOther.branch
    /\ fLog' = fOther.log
    /\ fResult' = fOther.result
    /\ UNCHANGED <<remote, repos, dirs>>

RaceLocator == Locator("ssh_git", TheHost, TheOrg, TheProject)

\* the versions that the two invocations ask for
RaceVersions == Tags

\* the cache key of the locator, git.rs:23
RaceKey == get_storage_path(RaceLocator)

\* a fetch that waits until no other invocation is inside fetch
RaceFetchCall_Locked(key, version, refresh) ==
    /\ fOther.pc \in {"idle", "done"}
    /\ FetchCallKeyed(key, RaceLocator, version, refresh)

\* main.rs:186-190 and git.rs:22-25: the invocation calls fetch
RaceFetchCall(key, version, refresh) == FetchCallKeyed(key, RaceLocator, version, refresh)

RaceInit ==
    /\ KeyIdle
    /\ BuildIdle
    /\ AliasIdle
    /\ RunIdle
    /\ remote = [default |-> "trunk", branches |-> {"trunk", "main"}, tags |-> Tags]
    /\ repos = <<>>
    /\ dirs = {}
    /\ fPc = "idle"
    /\ fUrl = ""
    /\ fVersion = "latest"
    /\ fRefresh = FALSE
    /\ fPath = ""
    /\ fExisted = FALSE
    /\ fHead0 = ""
    /\ fBranch = ""
    /\ fLog = <<>>
    /\ fResult = None
    /\ fOther = IdleLocals

RaceNext ==
    \/ \E key \in {RaceKey}, version \in RaceVersions, refresh \in BOOLEAN :
          RaceFetchCall(key, version, refresh)
    \/ \E outcome \in Outcomes : SwapSymbolicRef(outcome)
    \/ \E outcome \in Outcomes : SwapCheckoutHead(outcome)
    \/ \E outcome \in Outcomes : SwapCheckoutMain(outcome)
    \/ \E outcome \in Outcomes : SwapCheckoutMaster(outcome)
    \/ \E outcome \in Outcomes : PullRepo(outcome)
    \/ \E outcome \in Outcomes : FetchTags(outcome)
    \/ \E outcome \in Outcomes : CheckoutVersion(outcome)
    \/ \E outcome \in Outcomes : CloneRepo(outcome)
    \/ Switch

SpecRace == RaceInit /\ [][RaceNext]_vars

NotDerived == [tag |-> "NotDerived"]

KeyInit ==
    /\ kHost \in Names
    /\ kOrg \in Names
    /\ kProject \in Names
    /\ kOut = [s \in Styles |-> NotDerived]
    /\ FetchIdle
    /\ BuildIdle
    /\ AliasIdle
    /\ RunIdle

\* get_storage_path applied to the locator of the repository in one style
DeriveKey(style) ==
    /\ kOut[style] = NotDerived
    /\ kOut' = [kOut EXCEPT ![style] = get_storage_path(Locator(style, kHost, kOrg, kProject))]
    /\ UNCHANGED <<kHost, kOrg, kProject>>
    /\ UNCHANGED notKeyVars

KeyNext == \E style \in Styles : DeriveKey(style)

SpecKey == KeyInit /\ [][KeyNext]_vars

(***************************************************************************)
(* The project analyser and the manifest builder: package.rs, utils.rs,    *)
(* and their callers in main.rs:354-384.                                   *)
(***************************************************************************)
PRIORITY_TOP == 0
PRIORITY_LIKELY == 1
PRIORITY_UNLIKELY == 2
PRIORITY_LAST == 3

PTypes == {"Python", "Node", "Shell", "Other"}

\* str::contains
Contains(s, sub) ==
    \E i \in 1..(Len(s) - Len(sub) + 1) : SubSeq(s, i, i + Len(sub) - 1) = sub

\* Path::file_name of a path with a final component: the text after the last '/'
FileName(p) == LET pieces == Split(p, "/") IN pieces[Len(pieces)]

\* Path::extension: the text after the last '.' of the file name; None when the
\* name has no '.', or only a leading one
Extension(p) ==
    LET pieces == Split(FileName(p), ".") IN
    IF Len(pieces) = 1 THEN None
    ELSE IF Len(pieces) = 2 /\ pieces[1] = "" THEN None
    ELSE Some(pieces[Len(pieces)])

\* pathdiff::diff_paths(f, project_root) for a file below project_root
diff_paths(f, root) ==
    LET rest == unwrap_or(strip_prefix(f, root), f) IN
    unwrap_or(strip_prefix(rest, "/"), rest)

\* utils.rs:19-25
check_python_main(code) ==
    \/ Contains(code, "if __name__ == \"__main__\":")
    \/ Contains(code, "if __name__ == '__main__':")

\* utils.rs:27-34; read_to_string fails on a file that is not UTF-8
check_python_exec_priority(file) ==
    IF ~file.utf8 THEN Err("read_to_string")
    ELSE IF check_python_main(file.content) THEN Ok(PRIORITY_TOP)
    ELSE Ok(PRIORITY_UNLIKELY)

\* BufRead::read_until(b'\n'): the bytes up to and including the first newline
FirstLine(content) ==
    LET i == IndexOf(content, "\n") IN
    IF i = 0 THEN content ELSE SubSeq(content, 1, i)

\* utils.rs:37-49
check_shebang_file(file) ==
    IF ~file.utf8 THEN Err("from_utf8")
    ELSE LET line == Trim(FirstLine(file.content)) IN
         IF StartsWith(line, "#!")
         THEN Ok(Some(unwrap_or(strip_prefix(line, "#!"), "")))
         ELSE Ok(None)

\* utils.rs:51-59
map_extension_to_ptype(ext) ==
    CASE ext = "py" -> Some("Python")
      [] ext = "sh" -> Some("Shell")
      [] ext = "js" -> Some("Node")
      [] ext = "ts" -> Some("Node")
      [] OTHER -> None

\* utils.rs:61-75
check_package_json(pkg) == pkg # "missing"
check_requirements_txt(req) == req

\* utils.rs:77-94; the string that package.json names as "main"
MainField == "index.js"

detect_main_node(pkg) ==
    IF ~check_package_json(pkg) THEN None
    ELSE IF pkg = "unreadable" THEN None
    ELSE IF pkg = "invalid" THEN None
    ELSE IF pkg = "main" THEN Some(MainField)
    ELSE None

\* package.rs:161-164: Path::file_name of the project root, None for "/"
detect_name(project_root) ==
    IF project_root = "/" THEN None ELSE Some(FileName(project_root))

\* package.rs:166-180
is_hidden(name) == StartsWith(name, ".")
ignore_dir(name) == StartsWith(name, "node_modules") \/ StartsWith(name, "__pycache__")

\* a deduce_entrypoint that reads package.json whatever the type
deduce_entrypoint_AnyType(ptype, pkg) == detect_main_node(pkg)

\* package.rs:182-187
deduce_entrypoint(ptype, pkg) ==
    IF ptype = "Node" THEN detect_main_node(pkg) ELSE None

\* a deduce_interpreter that runs shell projects with bash
deduce_interpreter_Bash(ptype) ==
    CASE ptype = "Python" -> Some("/usr/bin/env python")
      [] ptype = "Node" -> Some("/usr/bin/env node")
      [] ptype = "Shell" -> Some("/bin/bash")
      [] OTHER -> None

\* package.rs:189-196
deduce_interpreter(ptype) ==
    CASE ptype = "Python" -> Some("/usr/bin/env python")
      [] ptype = "Node" -> Some("/usr/bin/env node")
      [] ptype = "Shell" -> Some("/bin/sh")
      [] OTHER -> None

\* package.rs:198-208
detect_ptype(pkg, req) ==
    IF check_package_json(pkg) THEN Some("Node")
    ELSE IF check_requirements_txt(req) THEN Some("Python")
    ELSE None

\* package.rs:259-262
detect_ptype_from_extension(file) ==
    LET ext == Extension(file.path) IN
    IF ext.tag = "None" THEN None ELSE map_extension_to_ptype(ext.val)

\* a detect_possible_entrypoint that keeps the shebang text as read
detect_possible_entrypoint_NoTrim(file) ==
    IF unwrap_or(Extension(file.path), "") = "py"
    THEN Some(<<file.path, "/usr/bin/env python",
                unwrap_or_result(check_python_exec_priority(file), PRIORITY_LAST)>>)
    ELSE LET interpreter == unwrap_or_result(check_shebang_file(file), None) IN
         IF interpreter.tag = "Some"
         THEN Some(<<file.path, interpreter.val, PRIORITY_LIKELY>>)
         ELSE None

\* a detect_possible_entrypoint that looks for a shebang before the extension
detect_possible_entrypoint_ShebangFirst(file) ==
    LET interpreter == unwrap_or_result(check_shebang_file(file), None) IN
    IF interpreter.tag = "Some"
    THEN Some(<<file.path, Trim(interpreter.val), PRIORITY_LIKELY>>)
    ELSE IF unwrap_or(Extension(file.path), "") = "py"
    THEN Some(<<file.path, "/usr/bin/env python",
                unwrap_or_result(check_python_exec_priority(file), PRIORITY_LAST)>>)
    ELSE None

\* package.rs:264-301
detect_possible_entrypoint(file) ==
    IF unwrap_or(Extension(file.path), "") = "py"
    THEN Some(<<file.path, "/usr/bin/env python",
                unwrap_or_result(check_python_exec_priority(file), PRIORITY_LAST)>>)
    ELSE LET interpreter == unwrap_or_result(check_shebang_file(file), None) IN
         IF interpreter.tag = "Some"
         THEN Some(<<file.path, Trim(interpreter.val), PRIORITY_LIKELY>>)
         ELSE None

\* WalkDir::new(root).into_iter().filter_entry(..): an entry is yielded if no
\* entry on the way to it, the root itself included, is hidden or ignored
Filtered(name) == is_hidden(name) \/ ignore_dir(name)

Pruned(rel) ==
    LET pieces == Split(rel, "/") IN \E i \in 1..Len(pieces) : Filtered(pieces[i])

RootName(project_root) == IF project_root = "/" THEN "/" ELSE FileName(project_root)

Visited(project_root, files) ==
    IF Filtered(RootName(project_root)) THEN <<>>
    ELSE SelectSeq(files, LAMBDA f : ~Pruned(f.path))

\* a loop body that takes the type from every file with a mapped extension
VisitFile_AlwaysRetype(b, f) ==
    LET entry == [f EXCEPT !.path = PathJoin(b.project_root, f.path)]
        found == detect_possible_entrypoint(entry)
        b1 == IF found.tag = "Some"
              THEN [b EXCEPT !.executables =
                        Append(@, <<diff_paths(found.val[1], b.project_root),
                                    found.val[2], found.val[3]>>)]
              ELSE b
        ptype == detect_ptype_from_extension(entry)
    IN  IF ptype.tag = "Some"
        THEN [b1 EXCEPT !.ptype = ptype.val]
        ELSE b1

\* a loop body in which a Python extension replaces a type sampled earlier
VisitFile_PythonWins(b, f) ==
    LET entry == [f EXCEPT !.path = PathJoin(b.project_root, f.path)]
        found == detect_possible_entrypoint(entry)
        b1 == IF found.tag = "Some"
              THEN [b EXCEPT !.executables =
                        Append(@, <<diff_paths(found.val[1], b.project_root),
                                    found.val[2], found.val[3]>>)]
              ELSE b
        ptype == detect_ptype_from_extension(entry)
    IN  IF ptype.tag = "Some" /\ (b1.ptype = "Other" \/ ptype.val = "Python")
        THEN [b1 EXCEPT !.ptype = ptype.val]
        ELSE b1

\* package.rs:229-246: the body of the walk loop for one regular file
VisitFile(b, f) ==
    LET entry == [f EXCEPT !.path = PathJoin(b.project_root, f.path)]
        found == detect_possible_entrypoint(entry)
        b1 == IF found.tag = "Some"
              THEN [b EXCEPT !.executables =
                        Append(@, <<diff_paths(found.val[1], b.project_root),
                                    found.val[2], found.val[3]>>)]
              ELSE b
        ptype == detect_ptype_from_extension(entry)
    IN  IF b1.ptype = "Other" /\ ptype.tag = "Some"
        THEN [b1 EXCEPT !.ptype = ptype.val]
        ELSE b1

RECURSIVE WalkFiles(_, _)
WalkFiles(b, files) ==
    IF Len(files) = 0 THEN b ELSE WalkFiles(VisitFile(b, Head(files)), Tail(files))

\* package.rs:210-257
analyse_project(project_root, files, pkg, req) ==
    LET ptype == detect_ptype(pkg, req)
        b0 == [project_root |-> project_root,
               name |-> detect_name(project_root),
               interpreter |-> None,
               entrypoint |-> None,
               executables |-> <<>>,
               ptype |-> IF ptype.tag = "Some" THEN ptype.val ELSE "Other"]
    IN  WalkFiles(b0, Visited(project_root, files))

\* main.rs:363-384
override_builder_opts(args, b) ==
    LET b1 == IF args.name.tag = "Some" THEN [b EXCEPT !.name = args.name] ELSE b
        b2 == IF args.interpreter.tag = "Some"
              THEN [b1 EXCEPT !.interpreter = args.interpreter] ELSE b1
        b3 == IF args.entrypoint.tag = "Some"
              THEN [b2 EXCEPT !.entrypoint = args.entrypoint] ELSE b2
    IN  IF args.ptype.tag = "Some" THEN [b3 EXCEPT !.ptype = args.ptype.val] ELSE b3

\* a sort that leaves the executables in the order of the walk
sort_by_priority_Unsorted(execs) == execs

\* package.rs:103: Vec::sort_by on the priority, a stable sort
RECURSIVE InsertByPriority(_, _)
InsertByPriority(sorted, e) ==
    IF Len(sorted) = 0 THEN <<e>>
    ELSE IF sorted[Len(sorted)][3] <= e[3] THEN Append(sorted, e)
    ELSE Append(InsertByPriority(SubSeq(sorted, 1, Len(sorted) - 1), e), sorted[Len(sorted)])

RECURSIVE SortPrefix(_, _)
SortPrefix(execs, n) ==
    IF n = 0 THEN <<>> ELSE InsertByPriority(SortPrefix(execs, n - 1), execs[n])

sort_by_priority(execs) == SortPrefix(execs, Len(execs))

\* the anyhow errors of build: the message and, for the one that prints
\* self.executables with {:?}, the executables printed
BuildError(msg, execs) == [msg |-> msg, executables |-> execs]
NameError == BuildError("Could not detect project name. Please specify it manually.", <<>>)
EntrypointError == BuildError("Could not detect project entrypoint. Please specify it manually.", <<>>)
InterpreterError == BuildError("Could not detect project interpreter. Please specify it manually.", <<>>)
MultipleError(execs) == BuildError("Multiple entrypoints detected! Please choose one manually.", execs)

\* an entrypoint step that leaves the interpreter to the deduction from the type
ResolveEntrypoint_TypeDecides(b, pkg) ==
    IF b.entrypoint.tag = "Some" THEN Ok(b)
    ELSE IF Len(b.executables) = 0
    THEN LET entrypoint == deduce_entrypoint(b.ptype, pkg) IN
         IF entrypoint.tag = "Some"
         THEN Ok([b EXCEPT !.entrypoint = entrypoint])
         ELSE Err(EntrypointError)
    ELSE IF Len(b.executables) > 1
    THEN LET execs == sort_by_priority(b.executables) IN
         IF execs[1][3] = execs[2][3]
         THEN Err(MultipleError(execs))
         ELSE Ok([b EXCEPT !.executables = execs,
                           !.entrypoint = Some(execs[1][1])])
    ELSE Ok([b EXCEPT !.entrypoint = Some(b.executables[1][1])])

\* package.rs:88-122: the builder after the entrypoint step, or the Err returned
ResolveEntrypoint(b, pkg) ==
    IF b.entrypoint.tag = "Some" THEN Ok(b)
    ELSE IF Len(b.executables) = 0
    THEN LET entrypoint == deduce_entrypoint(b.ptype, pkg) IN
         IF entrypoint.tag = "Some"
         THEN Ok([b EXCEPT !.entrypoint = entrypoint])
         ELSE Err(EntrypointError)
    ELSE IF Len(b.executables) > 1
    THEN LET execs == sort_by_priority(b.executables) IN
         IF execs[1][3] = execs[2][3]
         THEN Err(MultipleError(execs))
         ELSE Ok([b EXCEPT !.executables = execs,
                           !.entrypoint = Some(execs[1][1]),
                           !.interpreter = Some(execs[1][2])])
    ELSE Ok([b EXCEPT !.entrypoint = Some(b.executables[1][1]),
                      !.interpreter = Some(b.executables[1][2])])

\* package.rs:123-136
ResolveInterpreter(b) ==
    IF b.interpreter.tag = "Some" THEN Ok(b)
    ELSE LET interpreter == deduce_interpreter(b.ptype) IN
         IF interpreter.tag = "Some"
         THEN Ok([b EXCEPT !.interpreter = interpreter])
         ELSE Err(InterpreterError)

\* package.rs:82-136: the builder with its name checked and its entrypoint
\* and interpreter resolved, or the Err returned
Resolve(b, pkg) ==
    IF b.name.tag = "None" THEN Err(NameError)
    ELSE LET withEntry == ResolveEntrypoint(b, pkg) IN
         IF IsErr(withEntry) THEN withEntry
         ELSE ResolveInterpreter(withEntry.val)

\* a dependency step that asks the collaborator whatever the interpreter is
ResolveDeps_Always(r, detected) ==
    [attempted |-> TRUE, deps |-> unwrap_or_result(detected, <<>>)]

\* package.rs:138-149: whether check_bash_dependencies is called, and the deps.
\* `detected` is what the call returns, utils.rs:101-112: the deps the
\* collaborator printed, or an Err (spawn failure, output that does not parse)
ResolveDeps(r, detected) ==
    IF Contains(r.interpreter.val, "bash")
    THEN [attempted |-> TRUE, deps |-> unwrap_or_result(detected, <<>>)]
    ELSE [attempted |-> FALSE, deps |-> <<>>]

\* package.rs:81-158
build(b, pkg, detected) ==
    LET resolved == Resolve(b, pkg) IN
    IF IsErr(resolved) THEN resolved
    ELSE LET r == resolved.val IN
         Ok([name |-> r.name.val,
             interpreter |-> r.interpreter.val,
             entrypoint |-> r.entrypoint.val,
             ptype |-> r.ptype,
             deps |-> ResolveDeps(r, detected).deps])

\* whether build reaches the call of check_bash_dependencies
DepsAttempted(b, pkg) ==
    LET resolved == Resolve(b, pkg) IN
    IsOk(resolved) /\ ResolveDeps(resolved.val, Ok(<<>>)).attempted

(***************************************************************************)
(* The generator: meta.rs:21-63, docker.rs:229-282, templates.rs.          *)
(***************************************************************************)
\* str::trim_start_matches
RECURSIVE TrimStartMatches(_, _)
TrimStartMatches(s, p) ==
    IF StartsWith(s, p) THEN TrimStartMatches(SubSeq(s, Len(p) + 1, Len(s)), p) ELSE s

\* docker.rs:229-266: what the rendered TEMPLATE_DOCKERFILE depends on
generate_dockerfile(pack, pkg, req) ==
    [from |-> CASE pack.ptype = "Python" -> "python:3.11-alpine"
                [] pack.ptype = "Node" -> "node:alpine"
                [] OTHER -> "alpine",
     os_deps |-> pack.deps,
     install |-> IF pack.ptype = "Python" /\ check_requirements_txt(req) THEN "pip"
                 ELSE IF pack.ptype = "Node" /\ check_package_json(pkg) THEN "npm"
                 ELSE "none",
     entrypoint |-> <<TrimStartMatches(pack.interpreter, "/usr/bin/env "), pack.entrypoint>>]

\* docker.rs:268-282: DOCKER_IGNORE has no placeholders
generate_docker_ignore(pack) == "**/.git\n**/.gitignore\n**/node_modules\n*.pyc\n"

\* the step of Generator::generate at which a filesystem call fails, if any
IoFailures == {"none", "create_dir", "save", "dockerfile", "dockerignore"}

\* meta.rs:49-62 on the files of the project root.  `pipreqs` is whether
\* create_requirements_txt leaves a requirements.txt behind (meta.rs:39-47
\* ignores its failure).  A failed std::fs::write leaves the file as it was.
Generator_generate(pack, disk, pkg, req, io, pipreqs) ==
    IF ~disk.dir /\ io = "create_dir"
    THEN [disk |-> disk, req |-> req, result |-> Err("create_dir")]
    ELSE LET d1 == [disk EXCEPT !.dir = TRUE] IN
    IF io = "save"
    THEN [disk |-> d1, req |-> req, result |-> Err("write meta.json")]
    ELSE LET d2 == [d1 EXCEPT !.meta = Some(pack)]
             req2 == IF pack.ptype = "Python" /\ ~check_requirements_txt(req)
                     THEN pipreqs ELSE req
             dockerfile == generate_dockerfile(pack, pkg, req2)
             dockerignore == generate_docker_ignore(pack)
         IN
    IF io = "dockerfile"
    THEN [disk |-> d2, req |-> req2, result |-> Err("write Dockerfile")]
    ELSE LET d3 == [d2 EXCEPT !.dockerfile = Some(dockerfile)] IN
    IF io = "dockerignore"
    THEN [disk |-> d3, req |-> req2, result |-> Err("write .dockerignore")]
    ELSE [disk |-> [d3 EXCEPT !.dockerignore = Some(dockerignore)],
          req |-> req2, result |-> Ok("()")]

(***************************************************************************)
(* The projects analysed in the model.                                     *)
(***************************************************************************)
MaxFiles == 3

File(path, content) == [path |-> path, content |-> content, utf8 |-> TRUE]

FilePoolSeq ==
    << File("main.py", "import x\nif __name__ == \"__main__\":\n  x.run()\n"),
       File("run.sh", "#! /bin/bash \necho hi\n"),
       File("app.py", "if __name__ == '__main__':\n  pass\n"),
       File("node_modules/dep/cli.js", "#!/usr/bin/env node\nrequire('.')\n"),
       File("util.py", "x = 1\n"),
       File("index.js", "console.log(1)\n") >>

FilePool == {FilePoolSeq[i] : i \in 1..Len(FilePoolSeq)}

\* the files of the pool with index in S, in the order of the pool
RECURSIVE Ascending(_)
Ascending(S) ==
    IF S = {} THEN <<>>
    ELSE LET m == CHOOSE x \in S : \A y \in S : x <= y IN
         <<FilePoolSeq[m]>> \o Ascending(S \ {m})

Reverse(xs) == [i \in 1..Len(xs) |-> xs[Len(xs) + 1 - i]]

\* the orders in which a walk yields at most n files of the pool: the walk
\* follows the order of the directory, which the filesystem chooses; the model
\* takes every choice of files in the order of the pool and in the reverse
\* order, so that every two files are met in both orders
WalkOrders(n) ==
    UNION { {Ascending(S), Reverse(Ascending(S))} :
            S \in {T \in SUBSET (1..Len(FilePoolSeq)) : Cardinality(T) <= n} }

\* project roots: the filesystem root, a plain directory, a hidden directory
Roots == {"/", "/w/proj", "/w/.tmp"}

\* package.json at the root: absent, not readable, not JSON, JSON without a
\* string "main", JSON with "main": MainField
PkgStates == {"missing", "unreadable", "invalid", "no_main", "main"}

\* OverrideOpts, main.rs:37-50
OverrideArgs ==
    [name : {None, Some("custom-name")},
     interpreter : {None, Some("/usr/bin/python3")},
     entrypoint : {None, Some("script.py")},
     ptype : {None, Some("Node"), Some("Shell")}]

NoArgs == [name |-> None, interpreter |-> None, entrypoint |-> None, ptype |-> None]

\* what check_bash_dependencies can return
DetectOutcomes == {Err("detect-pkgs"), Ok(<<>>), Ok(<<"curl">>)}

\* a manifest and its files left by an earlier generate
OldPack ==
    [name |-> "old", interpreter |-> "/bin/sh", entrypoint |-> "old.sh",
     ptype |-> "Shell", deps |-> <<>>]

DiskOld ==
    [dir |-> TRUE, meta |-> Some(OldPack),
     dockerfile |-> Some(generate_dockerfile(OldPack, "missing", FALSE)),
     dockerignore |-> Some(generate_docker_ignore(OldPack))]

BuildInit ==
    /\ KeyIdle
    /\ FetchIdle
    /\ AliasIdle
    /\ RunIdle
    /\ bRoot \in Roots
    /\ bFiles \in WalkOrders(MaxFiles)
    /\ bPkg \in PkgStates
    /\ bReq \in BOOLEAN
    /\ bArgs = NoArgs
    /\ bPc = "start"
    /\ builder = None
    /\ bResult = None
    /\ bDetect = None
    /\ bDisk \in {DiskAbsent, DiskOld}
    /\ bExit = None

\* package.rs:44-47, called at main.rs:355
PackBuilder ==
    /\ bPc = "start"
    /\ builder' = analyse_project(bRoot, bFiles, bPkg, bReq)
    /\ bPc' = "analysed"
    /\ UNCHANGED <<bRoot, bFiles, bPkg, bReq, bArgs, bResult, bDetect, bDisk, bExit>>
    /\ UNCHANGED notBuildVars

\* main.rs:356
OverrideBuilderOpts(args) ==
    /\ bPc = "analysed"
    /\ bArgs' = args
    /\ builder' = override_builder_opts(args, builder)
    /\ bPc' = "overridden"
    /\ UNCHANGED <<bRoot, bFiles, bPkg, bReq, bResult, bDetect, bDisk, bExit>>
    /\ UNCHANGED notBuildVars

\* main.rs:357
Build(detected) ==
    /\ bPc = "overridden"
    /\ bResult' = build(builder, bPkg, detected)
    /\ bDetect' = IF DepsAttempted(builder, bPkg) THEN Some(detected) ELSE None
    /\ bPc' = "built"
    /\ UNCHANGED <<bRoot, bFiles, bPkg, bReq, bArgs, builder, bDisk, bExit>>
    /\ UNCHANGED notBuildVars

\* a generate that goes on with a default Pack when build failed
BuildFailed_GeneratesDefault ==
    /\ bPc = "built"
    /\ IsErr(bResult)
    /\ LET pack == [name |-> "", interpreter |-> "", entrypoint |-> "",
                    ptype |-> "Other", deps |-> <<>>]
           g == Generator_generate(pack, bDisk, bPkg, bReq, "none", FALSE)
       IN  /\ bDisk' = g.disk
           /\ bExit' = g.result
    /\ bPc' = "done"
    /\ UNCHANGED <<bRoot, bFiles, bPkg, bReq, bArgs, builder, bResult, bDetect>>
    /\ UNCHANGED notBuildVars

\* main.rs:357 (and :328 in run): the `?` on an Err of build returns it
BuildFailed ==
    /\ bPc = "built"
    /\ IsErr(bResult)
    /\ bExit' = bResult
    /\ bPc' = "done"
    /\ UNCHANGED <<bRoot, bFiles, bPkg, bReq, bArgs, builder, bResult, bDetect, bDisk>>
    /\ UNCHANGED notBuildVars

\* main.rs:358-360 (and :329-330 in run)
Generate(io, pipreqs) ==
    /\ bPc = "built"
    /\ IsOk(bResult)
    /\ LET g == Generator_generate(bResult.val, bDisk, bPkg, bReq, io, pipreqs) IN
          /\ bDisk' = g.disk
          /\ bReq' = g.req
          /\ bExit' = g.result
    /\ bPc' = "done"
    /\ UNCHANGED <<bRoot, bFiles, bPkg, bArgs, builder, bResult, bDetect>>
    /\ UNCHANGED notBuildVars

BuildNext ==
    \/ PackBuilder
    \/ \E args \in OverrideArgs : OverrideBuilderOpts(args)
    \/ \E detected \in DetectOutcomes : Build(detected)
    \/ BuildFailed
    \/ \E io \in IoFailures, pipreqs \in BOOLEAN : Generate(io, pipreqs)

SpecBuild == BuildInit /\ [][BuildNext]_vars

(***************************************************************************)
(* `envyr generate <dir>` without override options, over directories whose *)
(* files exercise each branch of detect_possible_entrypoint.               *)
(***************************************************************************)
\* a file whose bytes are not UTF-8
Binary(path) == [path |-> path, content |-> "", utf8 |-> FALSE]

WalkPool ==
    { File("tool.py", "#!/usr/bin/env python3\nprint(1)\n"),
      File("cli.py", "#!/usr/bin/python\nif __name__ == \"__main__\":\n  go()\n"),
      File("empty.py", ""),
      Binary("blob.py"),
      File("start", " \t#!/bin/sh\necho\n"),
      File("serve.js", "#!  /usr/bin/env node  \nlisten()\n"),
      File("notes.txt", "todo\n#!/bin/sh\n"),
      Binary("data") }

\* the sequences of at most n distinct files of S
RECURSIVE SeqsOf(_, _)
SeqsOf(S, n) ==
    IF n = 0 THEN {<<>>}
    ELSE LET shorter == SeqsOf(S, n - 1) IN
         shorter \cup { Append(xs, f) : xs \in shorter, f \in S }

DistinctFiles(xs) == \A i, j \in 1..Len(xs) : xs[i] = xs[j] => i = j

WalkInit ==
    /\ KeyIdle
    /\ FetchIdle
    /\ AliasIdle
    /\ RunIdle
    /\ bRoot = "/w/proj"
    /\ bFiles \in {xs \in SeqsOf(WalkPool, MaxFiles) : DistinctFiles(xs)}
    /\ bPkg = "missing"
    /\ bReq = FALSE
    /\ bArgs = NoArgs
    /\ bPc = "start"
    /\ builder = None
    /\ bResult = None
    /\ bDetect = None
    /\ bDisk = DiskAbsent
    /\ bExit = None

WalkNext ==
    \/ PackBuilder
    \/ \E args \in {NoArgs} : OverrideBuilderOpts(args)
    \/ \E detected \in DetectOutcomes : Build(detected)
    \/ BuildFailed
    \/ \E io \in {"none"}, pipreqs \in BOOLEAN : Generate(io, pipreqs)

SpecWalk == WalkInit /\ [][WalkNext]_vars

(***************************************************************************)
(* The alias map: meta.rs:73-108.                                          *)
(***************************************************************************)
\* RunConfig, main.rs:299-315: the fields that main and run read
RunConfig(project_root, refresh, autogen, timeout, executor) ==
    [project_root |-> project_root, refresh |-> refresh, autogen |-> autogen,
     timeout |-> timeout, executor |-> executor]

\* AliasMap::new()
EmptyAliasMap == [n \in {} |-> None]

\* HashMap::insert, HashMap::remove
MapInsert(m, name, conf) ==
    [n \in DOMAIN m \cup {name} |-> IF n = name THEN conf ELSE m[n]]
MapRemove(m, name) == [n \in DOMAIN m \ {name} |-> m[n]]

\* serde_json::to_string_pretty of an AliasMap: a JSON object, one member per
\* entry, written in the order of the HashMap's iteration; the text is kept
\* as the set of its members
to_string_pretty(m) == {<<n, m[n]>> : n \in DOMAIN m}

\* serde_json::from_str::<AliasMap>
from_str(text) ==
    [n \in {member[1] : member \in text} |->
        (CHOOSE member \in text : member[1] = n)[2]]

\* meta.rs:75-90: the file after the call and the map returned
load_aliases(file) ==
    LET created == IF file = None THEN Some(to_string_pretty(EmptyAliasMap)) ELSE file IN
    [file |-> created, result |-> Ok(from_str(created.val))]

\* meta.rs:92-99: the file after the call
remove_alias(file, name) ==
    LET aliases == load_aliases(file).result.val IN
    Some(to_string_pretty(MapRemove(aliases, name)))

\* a store_alias that writes a map holding the new entry only
store_alias_Fresh(file, name, conf) ==
    Some(to_string_pretty(MapInsert(EmptyAliasMap, name, conf)))

\* meta.rs:101-108: the file after the call
store_alias(file, name, conf) ==
    LET aliases == load_aliases(file).result.val IN
    Some(to_string_pretty(MapInsert(aliases, name, conf)))

\* the alias names and the configurations stored under them in the model
AliasNames == {"a", "b"}

StoredConfigs ==
    { RunConfig("/w/proj", FALSE, FALSE, None, "Docker"),
      RunConfig("git@h.io:o/p.git", FALSE, TRUE, Some(5), "Docker") }

\* how many store_alias and remove_alias calls a behaviour makes
MaxAliasOps == 3

AliasInit ==
    /\ KeyIdle
    /\ FetchIdle
    /\ BuildIdle
    /\ RunIdle
    /\ aliasFile \in {None, Some(to_string_pretty(EmptyAliasMap))}
    /\ aliasOps = <<>>

\* main.rs:280-288 (alias list) and :175-184: a call of load_aliases
LoadAliases ==
    /\ aliasFile' = load_aliases(aliasFile).file
    /\ UNCHANGED aliasOps
    /\ UNCHANGED notAliasVars

\* main.rs:274: a call of store_alias
StoreAlias(name, conf) ==
    /\ Len(aliasOps) < MaxAliasOps
    /\ aliasFile' = store_alias(aliasFile, name, conf)
    /\ aliasOps' = Append(aliasOps, <<"store", name, conf>>)
    /\ UNCHANGED notAliasVars

\* main.rs:289-291 (alias delete): a call of remove_alias
RemoveAlias(name) ==
    /\ Len(aliasOps) < MaxAliasOps
    /\ aliasFile' = remove_alias(aliasFile, name)
    /\ aliasOps' = Append(aliasOps, <<"remove", name>>)
    /\ UNCHANGED notAliasVars

AliasNext ==
    \/ LoadAliases
    \/ \E name \in AliasNames, conf \in StoredConfigs : StoreAlias(name, conf)
    \/ \E name \in AliasNames : RemoveAlias(name)

SpecAlias == AliasInit /\ [][AliasNext]_vars

(***************************************************************************)
(* One invocation of `envyr run <project_root>`: main.rs:232-277 and       *)
(* :317-352, docker.rs:53-122 and :187-227.                                *)
(***************************************************************************)
\* adapters/fetcher.rs:18-23
get_fetcher(url) == IF StartsWith(url, "git") THEN "GitFetcher" ELSE "NoopFetcher"

\* what is given as project_root: locators, paths, and the alias names
Sources ==
    { "git@h.io:o/p.git", "git://h.io/o/p.git", "https://h.io/o/p.git", "http://h.io/o/p",
      "ssh://git@h.io/o/p.git", "github/proj", "gitlab", "/w/proj", "./proj", "" }
    \cup AliasNames

\* the command line of `envyr run`, main.rs:89-136
RunArgs ==
    [project_root : Sources,
     alias : {None} \cup {Some(n) : n \in AliasNames},
     refresh : BOOLEAN,
     autogen : BOOLEAN,
     timeout : {None, Some(5)},
     executor : {"Docker", "Native"}]

StoredAlias == RunConfig("git@h.io:o/p.git", FALSE, TRUE, Some(5), "Docker")

RunInit ==
    /\ KeyIdle
    /\ FetchIdle
    /\ BuildIdle
    /\ aliasFile \in {None,
                      Some(to_string_pretty(EmptyAliasMap)),
                      Some(to_string_pretty(MapInsert(EmptyAliasMap, "a", StoredAlias)))}
    /\ aliasOps = <<>>
    /\ rPc = "start"
    /\ rArgs \in RunArgs
    /\ rConfig = None
    /\ rFromAlias = FALSE
    /\ rFetcher = ""
    /\ rBuildProc = "none"
    /\ rContainer = "none"
    /\ rElapsed = ""
    /\ rResult = None

\* a `?` in main that records the alias before it returns the Err
Fail_StoresAlias(e) ==
    /\ rPc' = "exit"
    /\ rResult' = Err(e)
    /\ IF rArgs.alias # None
       THEN /\ aliasFile' = store_alias(aliasFile, rArgs.alias.val, rConfig.val)
            /\ aliasOps' = Append(aliasOps, <<"store", rArgs.alias.val, rConfig.val>>)
       ELSE UNCHANGED aliasVars

\* main.rs:262 and :273: the `?` on an Err of run returns it from main
Fail(e) ==
    /\ rPc' = "exit"
    /\ rResult' = Err(e)
    /\ UNCHANGED aliasVars

\* main.rs:248-272, :175-184: the RunConfig is the one stored under
\* project_root, with the refresh of this command line, or is made of the
\* command line.  get_alias_config calls load_aliases, which creates the file.
ChooseConfig ==
    /\ rPc = "start"
    /\ LET loaded == load_aliases(aliasFile)
           aliases == loaded.result.val
       IN  /\ aliasFile' = loaded.file
           /\ IF rArgs.project_root \in DOMAIN aliases
              THEN /\ rConfig' = Some([aliases[rArgs.project_root] EXCEPT !.refresh = rArgs.refresh])
                   /\ rFromAlias' = TRUE
              ELSE /\ rConfig' = Some(RunConfig(rArgs.project_root, rArgs.refresh, rArgs.autogen,
                                                rArgs.timeout, rArgs.executor))
                   /\ rFromAlias' = FALSE
    /\ rPc' = "fetch"
    /\ UNCHANGED <<aliasOps, rArgs, rFetcher, rBuildProc, rContainer, rElapsed, rResult>>
    /\ UNCHANGED notRunVars

\* main.rs:318-324, :186-200: get_fetcher, the fetcher's fetch, canonicalize
RunFetch(fetched) ==
    /\ rPc = "fetch"
    /\ rFetcher' = get_fetcher(rConfig.val.project_root)
    /\ IF fetched
       THEN /\ rPc' = IF rConfig.val.autogen THEN "autogen" ELSE "executor"
            /\ UNCHANGED <<aliasVars, rResult>>
       ELSE Fail("fetch")
    /\ UNCHANGED <<rArgs, rConfig, rFromAlias, rBuildProc, rContainer, rElapsed>>
    /\ UNCHANGED notRunVars

\* main.rs:325-331: Pack::builder, override_builder_opts, build, generate
RunAutogen(generated) ==
    /\ rPc = "autogen"
    /\ IF generated
       THEN /\ rPc' = "executor"
            /\ UNCHANGED <<aliasVars, rResult>>
       ELSE Fail("autogen")
    /\ UNCHANGED <<rArgs, rConfig, rFromAlias, rFetcher, rBuildProc, rContainer, rElapsed>>
    /\ UNCHANGED notRunVars

\* main.rs:332-350: the Docker executor runs; the others are todo!(), a panic
SelectExecutor ==
    /\ rPc = "executor"
    /\ IF rConfig.val.executor = "Docker"
       THEN /\ rPc' = "docker"
            /\ UNCHANGED rResult
       ELSE /\ rPc' = "exit"
            /\ rResult' = [tag |-> "Panic"]
    /\ UNCHANGED <<aliasVars, rArgs, rConfig, rFromAlias, rFetcher, rBuildProc, rContainer, rElapsed>>
    /\ UNCHANGED notRunVars

\* docker.rs:66-75, :187-214: the engine is looked up, the image is looked
\* up, and unless it exists and no rebuild is forced the image build is spawned
DockerSetup(engine, imageExists, spawned) ==
    /\ rPc = "docker"
    /\ IF ~engine
       THEN /\ Fail("Docker or Podman not found.")
            /\ UNCHANGED rBuildProc
       ELSE IF rConfig.val.refresh \/ ~imageExists
       THEN IF spawned
            THEN /\ rBuildProc' = "running"
                 /\ rPc' = "build_wait"
                 /\ UNCHANGED <<aliasVars, rResult>>
            ELSE /\ Fail("io error")
                 /\ UNCHANGED rBuildProc
       ELSE /\ rPc' = "spawn"
            /\ UNCHANGED <<aliasVars, rResult, rBuildProc>>
    /\ UNCHANGED <<rArgs, rConfig, rFromAlias, rFetcher, rContainer, rElapsed>>
    /\ UNCHANGED notRunVars

\* docker.rs:215-224: the image build exits before the 300 s have passed
ImageBuildExits(success) ==
    /\ rPc = "build_wait"
    /\ rBuildProc' = "exited"
    /\ IF success
       THEN /\ rPc' = "spawn"
            /\ UNCHANGED <<aliasVars, rResult>>
       ELSE Fail("Failed to build docker image.")
    /\ UNCHANGED <<rArgs, rConfig, rFromAlias, rFetcher, rContainer, rElapsed>>
    /\ UNCHANGED notRunVars

\* docker.rs:215: the 300 s pass with the image build still running;
\* wait_timeout returns None
ImageBuildWaitElapses ==
    /\ rPc = "build_wait"
    /\ rElapsed' = "build"
    /\ rPc' = "build_elapsed"
    /\ UNCHANGED <<aliasVars, rArgs, rConfig, rFromAlias, rFetcher, rBuildProc, rContainer, rResult>>
    /\ UNCHANGED notRunVars

\* docker.rs:225: the None arm returns the Err; nothing is sent to the subprocess
ImageBuildTimedOut ==
    /\ rPc = "build_elapsed"
    /\ Fail("Failed to build docker image.")
    /\ UNCHANGED <<rArgs, rConfig, rFromAlias, rFetcher, rBuildProc, rContainer, rElapsed>>
    /\ UNCHANGED notRunVars

\* docker.rs:77-103: the container is spawned
StartContainer(spawned) ==
    /\ rPc = "spawn"
    /\ IF spawned
       THEN /\ rContainer' = "running"
            /\ rPc' = "wait"
            /\ UNCHANGED <<aliasVars, rResult>>
       ELSE /\ Fail("io error")
            /\ UNCHANGED rContainer
    /\ UNCHANGED <<rArgs, rConfig, rFromAlias, rFetcher, rBuildProc, rElapsed>>
    /\ UNCHANGED notRunVars

\* docker.rs:105-121: the container exits while run waits for it
ContainerExits(success) ==
    /\ rPc = "wait"
    /\ rContainer' = IF success THEN "exited_zero" ELSE "exited_nonzero"
    /\ IF success
       THEN /\ rPc' = "returned"
            /\ UNCHANGED <<aliasVars, rResult>>
       ELSE Fail("Non-zero exit code")
    /\ UNCHANGED <<rArgs, rConfig, rFromAlias, rFetcher, rBuildProc, rElapsed>>
    /\ UNCHANGED notRunVars

\* docker.rs:105-109: the timeout passes with the container still running;
\* wait_timeout returns None
ContainerWaitElapses ==
    /\ rPc = "wait"
    /\ rConfig.val.timeout # None
    /\ rElapsed' = "container"
    /\ rPc' = "wait_elapsed"
    /\ UNCHANGED <<aliasVars, rArgs, rConfig, rFromAlias, rFetcher, rBuildProc, rContainer, rResult>>
    /\ UNCHANGED notRunVars

\* a None arm that returns the Err without terminating the container
ContainerTimedOut_NotTerminated ==
    /\ rPc = "wait_elapsed"
    /\ Fail("Container execution timed out")
    /\ UNCHANGED <<rArgs, rConfig, rFromAlias, rFetcher, rBuildProc, rContainer, rElapsed>>
    /\ UNCHANGED notRunVars

\* docker.rs:109-113: terminate, then the Err.  A signal to a child that has
\* not been waited for is always delivered.
ContainerTimedOut ==
    /\ rPc = "wait_elapsed"
    /\ rContainer' = "terminated"
    /\ Fail("Container execution timed out")
    /\ UNCHANGED <<rArgs, rConfig, rFromAlias, rFetcher, rBuildProc, rElapsed>>
    /\ UNCHANGED notRunVars

\* main.rs:262-263 and :273-277: run has returned Ok; a stored alias returns
\* at once, otherwise the alias of the command line, if any, is stored
RecordAlias ==
    /\ rPc = "returned"
    /\ IF ~rFromAlias /\ rArgs.alias # None
       THEN /\ aliasFile' = store_alias(aliasFile, rArgs.alias.val, rConfig.val)
            /\ aliasOps' = Append(aliasOps, <<"store", rArgs.alias.val, rConfig.val>>)
       ELSE UNCHANGED aliasVars
    /\ rResult' = Ok("()")
    /\ rPc' = "exit"
    /\ UNCHANGED <<rArgs, rConfig, rFromAlias, rFetcher, rBuildProc, rContainer, rElapsed>>
    /\ UNCHANGED notRunVars

RunNext ==
    \/ ChooseConfig
    \/ \E fetched \in BOOLEAN : RunFetch(fetched)
    \/ \E generated \in BOOLEAN : RunAutogen(generated)
    \/ SelectExecutor
    \/ \E engine \in BOOLEAN, imageExists \in BOOLEAN, spawned \in BOOLEAN :
          DockerSetup(engine, imageExists, spawned)
    \/ \E success \in BOOLEAN : ImageBuildExits(success)
    \/ ImageBuildWaitElapses
    \/ ImageBuildTimedOut
    \/ \E spawned \in BOOLEAN : StartContainer(spawned)
    \/ \E success \in BOOLEAN : ContainerExits(success)
    \/ ContainerWaitElapses
    \/ ContainerTimedOut
    \/ RecordAlias

SpecRun == RunInit /\ [][RunNext]_vars

(***************************************************************************)
(* Properties of the fetcher and of the cache key.                         *)
(***************************************************************************)
LogIdx(fn) == {i \in 1..Len(fLog) : fLog[i].fn = fn}

\* the entries of fLog that end the restore: a checkout by swap_back_to_latest
\* that exited zero
RestoreOkIdx ==
    {i \in LogIdx("swap_back_to_latest") :
        fLog[i].argv[1] = "checkout" /\ fLog[i].status = "ok"}

Returned == fPc = "done"
ReturnedOk == fPc = "done" /\ IsOk(fResult)

\* C1: a fetch of a version other than "latest" that returns a working tree
\* leaves the HEAD of the cache entry it returns at that version, whether the
\* entry was cloned by this fetch or held any other tag or branch before.
C1_HeadAtVersion ==
    (ReturnedOk /\ fVersion # "latest") =>
        /\ fResult.val \in DOMAIN repos
        /\ repos[fResult.val].head = fVersion

C1_Witness ==
    /\ ReturnedOk
    /\ fExisted
    /\ fHead0 = "v1"
    /\ fVersion = "v2"
    /\ repos[fResult.val].head = "v2"

\* C2: on an existing cache entry no pull and no tag fetch is issued when
\* refresh is false; when refresh is true a pull is issued exactly once, as the
\* first command after the restore, and a pull that exits zero is directly
\* followed by one tag fetch.  A fetch that returns a working tree has issued
\* pull and fetch --tags once each if refresh was true, and neither otherwise.
C2_PullIffRefresh ==
    fExisted =>
        /\ ~fRefresh => LogIdx("pull_repo") = {} /\ LogIdx("fetch_tags") = {}
        /\ Cardinality(LogIdx("pull_repo")) <= 1
        /\ Cardinality(LogIdx("fetch_tags")) <= 1
        /\ (fRefresh /\ RestoreOkIdx # {} /\ fPc # "pull") =>
              \E i \in LogIdx("pull_repo") : i - 1 \in RestoreOkIdx
        /\ \A i \in LogIdx("fetch_tags") :
              i - 1 \in LogIdx("pull_repo") /\ fLog[i - 1].status = "ok"
        /\ \A i \in LogIdx("pull_repo") :
              (fLog[i].status = "ok" /\ fPc # "tags") => i + 1 \in LogIdx("fetch_tags")
        /\ (ReturnedOk /\ fRefresh) =>
              /\ Cardinality(LogIdx("pull_repo")) = 1
              /\ Cardinality(LogIdx("fetch_tags")) = 1

C2_Witness ==
    /\ ReturnedOk
    /\ fExisted
    /\ fRefresh
    /\ fVersion = "latest"
    /\ \E i \in 1..Len(fLog) - 1 :
          /\ fLog[i].argv = <<"pull">>
          /\ fLog[i + 1].argv = <<"fetch", "--tags">>
          /\ i + 1 = Len(fLog)

\* C3: on an existing cache entry every pull, tag fetch and checkout of the
\* requested version comes after the restore has ended with a checkout that
\* exited zero, and no command of the restore comes after it; so when the
\* restore fails none of the three is issued.
C3_RestoreFirst ==
    fExisted =>
        \A i \in LogIdx("pull_repo") \cup LogIdx("fetch_tags") \cup LogIdx("checkout_version") :
            /\ \E j \in RestoreOkIdx : j < i
            /\ \A j \in LogIdx("swap_back_to_latest") : j < i

C3_Witness ==
    /\ fExisted
    /\ Len(fLog) >= 3
    /\ fLog[Len(fLog) - 2].argv = <<"checkout", "main">>
    /\ fLog[Len(fLog) - 2].status = "fail"
    /\ fLog[Len(fLog) - 1].argv = <<"checkout", "master">>
    /\ fLog[Len(fLog) - 1].status = "ok"
    /\ fLog[Len(fLog)].argv = <<"pull">>

\* C4: the two SSH-style locators of a repository, with and without the
\* trailing .git, both map to the key host/org/project.
C4_SshKey ==
    \A s \in {"ssh_git", "ssh"} :
        kOut[s] # NotDerived => kOut[s] = Ok(kHost \o "/" \o kOrg \o "/" \o kProject)

C4_Witness ==
    /\ kOut["ssh_git"] # NotDerived
    /\ kOut["ssh"] # NotDerived
    /\ kOut["ssh_git"] = kOut["ssh"]
    /\ IsOk(kOut["ssh"])
    /\ Len(kProject) > 1

\* C5: the key derived from each HTTPS- or HTTP-style locator of a repository,
\* with or without .git, is the key derived from its SSH-style locator.
C5_HttpsKeyIsSshKey ==
    \A s \in {"https_git", "https", "http_git", "http"} :
        (kOut[s] # NotDerived /\ kOut["ssh_git"] # NotDerived) =>
            IsOk(kOut[s]) /\ kOut[s] = kOut["ssh_git"]

C5_Witness ==
    /\ \A s \in Styles : kOut[s] # NotDerived
    /\ kOut["https_git"] = kOut["ssh_git"]
    /\ IsOk(kOut["https_git"])
    /\ Len(kHost) > 1

\* C6: a fetch of a locator that has no '/' returns the parse error of the key
\* derivation, has issued no subprocess and no directory creation, and leaves
\* the clones and the directories under the cache root as they were.
C6_NoSlashFailsFast ==
    /\ []((fPc # "idle" /\ ~HasSlash(fUrl)) =>
            /\ fPc = "done"
            /\ fResult = Err("parse org name")
            /\ fLog = <<>>)
    /\ [][(fPc' # "idle" /\ ~HasSlash(fUrl')) => (repos' = repos /\ dirs' = dirs)]_vars

C6_Witness ==
    /\ fPc = "done"
    /\ ~HasSlash(fUrl)
    /\ IsErr(fResult)
    /\ fLog = <<>>
    /\ DOMAIN repos # {}

(***************************************************************************)
(* Properties of the manifest builder.                                     *)
(***************************************************************************)
Built == bPc = "built"

\* the candidates as the walk collected them
Candidates == builder.executables

MinPriority(execs) ==
    CHOOSE p \in {execs[i][3] : i \in 1..Len(execs)} :
        \A i \in 1..Len(execs) : p <= execs[i][3]

AtMinPriority(execs) == {i \in 1..Len(execs) : execs[i][3] = MinPriority(execs)}

SeqRange(xs) == {xs[i] : i \in 1..Len(xs)}

\* the files the walk visits, by path
VisitedPaths == [i \in 1..Len(Visited(bRoot, bFiles)) |-> Visited(bRoot, bFiles)[i].path]

\* C7: with a name, no entrypoint override and two or more candidates, build
\* returns the multiple-entrypoints error exactly when two or more candidates
\* have the lowest priority, and the error then prints every candidate;
\* otherwise it returns a manifest.
C7_AmbiguousIffTie ==
    (Built /\ builder.name # None /\ bArgs.entrypoint = None /\ Len(Candidates) >= 2) =>
        IF Cardinality(AtMinPriority(Candidates)) >= 2
        THEN /\ IsErr(bResult)
             /\ bResult.err.msg = MultipleError(<<>>).msg
             /\ Len(bResult.err.executables) = Len(Candidates)
             /\ SeqRange(bResult.err.executables) = SeqRange(Candidates)
        ELSE IsOk(bResult)

C7_Witness ==
    /\ Built
    /\ bArgs.entrypoint = None
    /\ Len(Candidates) = 3
    /\ Candidates[1][3] = PRIORITY_UNLIKELY
    /\ Candidates[2] = <<"app.py", "/usr/bin/env python", PRIORITY_TOP>>
    /\ Candidates[3] = <<"main.py", "/usr/bin/env python", PRIORITY_TOP>>
    /\ IsErr(bResult)
    /\ bResult.err.msg = MultipleError(<<>>).msg

\* C8: with a name, no overrides and exactly one candidate of the lowest
\* priority, the manifest's entrypoint and interpreter are that candidate's,
\* wherever the walk met it.  A lone shebang script gives its trimmed shebang
\* text (not /bin/sh); a lone .py file with a __main__ guard gives
\* /usr/bin/env python.
C8_UniqueLowestWins ==
    (Built /\ builder.name # None /\ bArgs = NoArgs) =>
        /\ (Len(Candidates) >= 1 /\ Cardinality(AtMinPriority(Candidates)) = 1) =>
              \A i \in AtMinPriority(Candidates) :
                  /\ IsOk(bResult)
                  /\ bResult.val.entrypoint = Candidates[i][1]
                  /\ bResult.val.interpreter = Candidates[i][2]
        /\ VisitedPaths = <<"run.sh">> =>
              /\ IsOk(bResult)
              /\ bResult.val.entrypoint = "run.sh"
              /\ bResult.val.interpreter = "/bin/bash"
        /\ VisitedPaths \in {<<"main.py">>, <<"app.py">>} =>
              /\ IsOk(bResult)
              /\ bResult.val.entrypoint = VisitedPaths[1]
              /\ bResult.val.interpreter = "/usr/bin/env python"

C8_Witness ==
    /\ Built
    /\ bArgs = NoArgs
    /\ VisitedPaths = <<"util.py", "run.sh", "main.py">>
    /\ IsOk(bResult)
    /\ bResult.val.entrypoint = "main.py"
    /\ bResult.val.interpreter = "/usr/bin/env python"

\* C9: every override given on the command line is the value of its field in
\* the manifest that build returns, and an entrypoint override keeps build from
\* returning the multiple-entrypoints error.
C9_OverridesWin ==
    Built =>
        /\ IsOk(bResult) =>
              /\ bArgs.name # None => bResult.val.name = bArgs.name.val
              /\ bArgs.interpreter # None => bResult.val.interpreter = bArgs.interpreter.val
              /\ bArgs.entrypoint # None => bResult.val.entrypoint = bArgs.entrypoint.val
              /\ bArgs.ptype # None => bResult.val.ptype = bArgs.ptype.val
        /\ (bArgs.entrypoint # None /\ IsErr(bResult)) =>
              bResult.err.msg # MultipleError(<<>>).msg

\* C10 as claimed: with a name, no entrypoint override and no candidate, build
\* returns the "main" of package.json as entrypoint with /usr/bin/env node as
\* interpreter when the type is Node and package.json has a string "main", and
\* the could-not-detect-entrypoint error in every other case.
C10_NodeFallback_Claimed ==
    (Built /\ builder.name # None /\ bArgs.entrypoint = None /\ Len(Candidates) = 0) =>
        IF builder.ptype = "Node" /\ bPkg = "main"
        THEN /\ IsOk(bResult)
             /\ bResult.val.entrypoint = MainField
             /\ bResult.val.interpreter = "/usr/bin/env node"
        ELSE bResult = Err(EntrypointError)

\* C10, amended: as claimed, except that the interpreter is the interpreter
\* override when one was given, and /usr/bin/env node only otherwise.
C10_NodeFallback ==
    (Built /\ builder.name # None /\ bArgs.entrypoint = None /\ Len(Candidates) = 0) =>
        IF builder.ptype = "Node" /\ bPkg = "main"
        THEN /\ IsOk(bResult)
             /\ bResult.val.entrypoint = MainField
             /\ bResult.val.interpreter =
                    IF bArgs.interpreter # None THEN bArgs.interpreter.val
                    ELSE "/usr/bin/env node"
        ELSE bResult = Err(EntrypointError)

C10_Witness ==
    /\ Built
    /\ bArgs = NoArgs
    /\ Len(Candidates) = 0
    /\ bPkg = "main"
    /\ \A i \in 1..Len(bFiles) : bFiles[i].path # MainField
    /\ IsOk(bResult)
    /\ bResult.val.entrypoint = MainField
    /\ bResult.val.interpreter = "/usr/bin/env node"

(***************************************************************************)
(* C11: when the interpreter is still unset after the entrypoint step      *)
(* (the entrypoint was overridden and the interpreter was not, or the      *)
(* entrypoint came from the Node fallback), build takes it from the        *)
(* project type: Python -> /usr/bin/env python, Node -> /usr/bin/env node, *)
(* Shell -> /bin/sh, and for type Other build fails with the               *)
(* could-not-detect-interpreter error.                                     *)
(***************************************************************************)
InterpreterUnsetAfterEntrypoint ==
    /\ Built
    /\ builder.name # None
    /\ bArgs.interpreter = None
    /\ \/ bArgs.entrypoint # None
       \/ Len(Candidates) = 0 /\ builder.ptype = "Node" /\ bPkg = "main"

C11_InterpreterFromType ==
    InterpreterUnsetAfterEntrypoint =>
        CASE builder.ptype = "Python" ->
                 IsOk(bResult) /\ bResult.val.interpreter = "/usr/bin/env python"
          [] builder.ptype = "Node" ->
                 IsOk(bResult) /\ bResult.val.interpreter = "/usr/bin/env node"
          [] builder.ptype = "Shell" ->
                 IsOk(bResult) /\ bResult.val.interpreter = "/bin/sh"
          [] OTHER -> bResult = Err(InterpreterError)

C11_Witness ==
    /\ InterpreterUnsetAfterEntrypoint
    /\ builder.ptype = "Shell"
    /\ Len(Candidates) > 0
    /\ IsOk(bResult)
    /\ bResult.val.interpreter = "/bin/sh"

(***************************************************************************)
(* C12: in generate (and in run --autogen, which makes the same calls)     *)
(* a step changes .envyr/meta.json, the Dockerfile or .dockerignore only   *)
(* when build has returned Ok, and the meta.json written then is the Pack  *)
(* of that build, whose name, entrypoint and interpreter are each the      *)
(* override or a deduced value; a failed build is returned as it is and    *)
(* leaves the three files as they were.                                    *)
(***************************************************************************)
CandidatePaths == {Candidates[i][1] : i \in 1..Len(Candidates)}
CandidateInterpreters == {Candidates[i][2] : i \in 1..Len(Candidates)}

SuppliedOrDeduced(pack) ==
    /\ IF bArgs.name # None THEN pack.name = bArgs.name.val
       ELSE bRoot # "/" /\ pack.name = FileName(bRoot)
    /\ IF bArgs.entrypoint # None THEN pack.entrypoint = bArgs.entrypoint.val
       ELSE \/ pack.entrypoint \in CandidatePaths
            \/ builder.ptype = "Node" /\ bPkg = "main" /\ pack.entrypoint = MainField
    /\ \/ bArgs.interpreter # None /\ pack.interpreter = bArgs.interpreter.val
       \/ pack.interpreter \in CandidateInterpreters
       \/ deduce_interpreter(builder.ptype) = Some(pack.interpreter)

C12_WrittenOnlyAfterBuild ==
    [][ /\ bDisk' # bDisk =>
             /\ IsOk(bResult)
             /\ bDisk'.meta # bDisk.meta =>
                   bDisk'.meta = Some(bResult.val) /\ SuppliedOrDeduced(bResult.val)
        /\ (bPc = "built" /\ IsErr(bResult)) => (bDisk' = bDisk /\ bExit' = bResult)
      ]_vars

C12_Witness ==
    /\ bPc = "done"
    /\ IsOk(bExit)
    /\ bArgs.name = None
    /\ bArgs.interpreter = None
    /\ bArgs.entrypoint = None
    /\ bDisk.meta = Some(bResult.val)
    /\ bDisk.meta # Some(OldPack)
    /\ bDisk.dockerfile # None

(***************************************************************************)
(* C14 as claimed: every git subprocess of a fetch that exits non-zero     *)
(* (clone, pull, fetch --tags, checkout, symbolic-ref) is the last thing   *)
(* the fetch does, and the fetch returns the error of that step, whose     *)
(* message is formatted with the captured stderr.                          *)
(***************************************************************************)
FailureMessage(fn) ==
    CASE fn = "pull_repo" -> "Failed to pull git repository"
      [] fn = "fetch_tags" -> "Failed to fetch tags"
      [] fn = "checkout_version" -> "Failed to checkout version"
      [] fn = "clone_repo" -> "Failed to clone git repository"
      [] OTHER -> "Failed to checkout default branch"

FatalAt(i) ==
    /\ i = Len(fLog)
    /\ fPc = "done"
    /\ fResult = Err(FailureMessage(fLog[i].fn))

C14_NonZeroIsFatal_Claimed ==
    \A i \in 1..Len(fLog) : fLog[i].status = "fail" => FatalAt(i)

\* the checkout of the branch that symbolic-ref printed
IsDetectedBranchCheckout(i) ==
    /\ i > 1
    /\ fLog[i].argv[1] = "checkout"
    /\ fLog[i - 1].argv[1] = "symbolic-ref"
    /\ fLog[i - 1].status = "ok"

\* the last attempt of the restore: `checkout master` after `checkout main` failed
IsLastRestoreAttempt(i) ==
    /\ i > 1
    /\ fLog[i].argv = <<"checkout", "master">>
    /\ fLog[i - 1].fn = "swap_back_to_latest"
    /\ fLog[i - 1].argv = <<"checkout", "main">>
    /\ fLog[i - 1].status = "fail"
    /\ ~IsDetectedBranchCheckout(i)

\* the restore goes on with `git checkout <branch>` after step i
RestoreGoesOn(i, branch) ==
    IF i < Len(fLog)
    THEN /\ fLog[i + 1].fn = "swap_back_to_latest"
         /\ fLog[i + 1].argv = <<"checkout", branch>>
    ELSE /\ fPc = "swap_" \o branch
         /\ fResult = None

(***************************************************************************)
(* C14 as amended: a non-zero exit of clone, pull, fetch --tags or the     *)
(* checkout of the requested version ends the fetch with that step's       *)
(* error; within the restore of the default branch a non-zero exit of      *)
(* symbolic-ref or of the checkout of the detected branch is followed by   *)
(* `checkout main`, a non-zero exit of `checkout main` by `checkout        *)
(* master`, and only a non-zero exit of that last checkout ends the fetch. *)
(***************************************************************************)
C14_NonZeroIsFatal ==
    \A i \in 1..Len(fLog) :
        fLog[i].status = "fail" =>
            IF fLog[i].fn = "swap_back_to_latest" /\ ~IsLastRestoreAttempt(i)
            THEN IF fLog[i].argv[1] = "symbolic-ref" \/ IsDetectedBranchCheckout(i)
                 THEN RestoreGoesOn(i, "main")
                 ELSE RestoreGoesOn(i, "master")
            ELSE FatalAt(i)

C14_Witness ==
    /\ fPc = "done"
    /\ Len(fLog) = 4
    /\ fLog[1].argv[1] = "symbolic-ref" /\ fLog[1].status = "fail"
    /\ fLog[2].argv = <<"checkout", "main">> /\ fLog[2].status = "ok"
    /\ fLog[3].fn = "pull_repo" /\ fLog[3].status = "ok"
    /\ fLog[4].fn = "fetch_tags" /\ fLog[4].status = "fail"
    /\ fResult = Err("Failed to fetch tags")

(***************************************************************************)
(* C15: dependency detection is never fatal.  build calls the collaborator *)
(* only after it has resolved an interpreter that is a shell; whenever it  *)
(* does not call it the manifest's deps are empty; and when the call fails *)
(* (the collaborator cannot be spawned, or prints what does not parse)     *)
(* build still returns Ok, with empty deps.                                *)
(***************************************************************************)
IndicatesShellScript(interpreter) == EndsWith(interpreter, "sh")

C15_DepsNeverFatal ==
    Built =>
        /\ bDetect # None =>
              /\ IsOk(bResult)
              /\ IndicatesShellScript(bResult.val.interpreter)
              /\ bResult.val.deps = unwrap_or_result(bDetect.val, <<>>)
        /\ (bDetect = None /\ IsOk(bResult)) => bResult.val.deps = <<>>
        /\ (bDetect # None /\ IsErr(bDetect.val)) => bResult.val.deps = <<>>

C15_Witness ==
    /\ Built
    /\ bDetect # None
    /\ IsErr(bDetect.val)
    /\ IsOk(bResult)
    /\ bResult.val.interpreter = "/bin/bash"
    /\ bResult.val.deps = <<>>

(***************************************************************************)
(* C16: without a type override the type that analyse_project produces is  *)
(* Node if package.json exists at the root, else Python if                 *)
(* requirements.txt exists there, else the type of the first visited file  *)
(* whose extension is py, sh, js or ts (Python, Shell, Node, Node), else   *)
(* Other.  While the walk proceeds a type that came from a marker file     *)
(* never changes, and the type changes at most once in any walk.           *)
(***************************************************************************)
Analysed == bPc = "analysed" \/ (bPc \in {"overridden", "built", "done"} /\ bArgs.ptype = None)

TypeOfExtension(path) ==
    LET ext == Extension(path) IN
    IF ext = Some("py") THEN "Python"
    ELSE IF ext = Some("sh") THEN "Shell"
    ELSE IF ext \in {Some("js"), Some("ts")} THEN "Node"
    ELSE "Other"

TypedVisits == {i \in 1..Len(VisitedPaths) : TypeOfExtension(VisitedPaths[i]) # "Other"}

MarkerType ==
    IF bPkg # "missing" THEN "Node" ELSE IF bReq THEN "Python" ELSE "Other"

ExpectedType ==
    IF MarkerType # "Other" THEN MarkerType
    ELSE IF TypedVisits = {} THEN "Other"
    ELSE TypeOfExtension(VisitedPaths[CHOOSE i \in TypedVisits : \A j \in TypedVisits : i <= j])

\* the builder's type once the walk has yielded the first k files
TypeAfter(k) == analyse_project(bRoot, SubSeq(bFiles, 1, k), bPkg, bReq).ptype

C16_TypePrecedence ==
    Analysed =>
        /\ builder.ptype = ExpectedType
        /\ MarkerType # "Other" => \A k \in 0..Len(bFiles) : TypeAfter(k) = MarkerType
        /\ Cardinality({k \in 1..Len(bFiles) : TypeAfter(k) # TypeAfter(k - 1)}) <= 1

C16_Witness ==
    /\ bPc = "analysed"
    /\ bRoot = "/w/proj"
    /\ MarkerType = "Other"
    /\ Len(bFiles) = 3
    /\ bFiles[1].path = "node_modules/dep/cli.js"
    /\ bFiles[2].path = "util.py"
    /\ bFiles[3].path = "index.js"
    /\ builder.ptype = "Python"

(***************************************************************************)
(* C18: after any sequence of store_alias and remove_alias calls by one    *)
(* process, load_aliases returns the map that the same inserts and         *)
(* removals make of the empty map: a store overwrites or adds only its own *)
(* entry, a remove deletes only its own entry, and with aliases.json       *)
(* absent the map loaded is empty.                                         *)
(***************************************************************************)
\* the reference map, as the set of its (name, configuration) pairs
RECURSIVE ReferenceMap(_)
ReferenceMap(ops) ==
    IF Len(ops) = 0 THEN {}
    ELSE LET before == ReferenceMap(SubSeq(ops, 1, Len(ops) - 1))
             op == ops[Len(ops)]
             others == {e \in before : e[1] # op[2]}
         IN  IF op[1] = "store" THEN others \cup {<<op[2], op[3]>>} ELSE others

Loaded == load_aliases(aliasFile).result

C18_AliasMapRefinement ==
    /\ IsOk(Loaded)
    /\ {<<n, Loaded.val[n]>> : n \in DOMAIN Loaded.val} = ReferenceMap(aliasOps)
    /\ aliasFile = None => DOMAIN Loaded.val = {}

C18_Witness ==
    /\ Len(aliasOps) = 3
    /\ aliasOps[1][1] = "store" /\ aliasOps[1][2] = "a"
    /\ aliasOps[2][1] = "store" /\ aliasOps[2][2] = "b"
    /\ aliasOps[3][1] = "store" /\ aliasOps[3][2] = "a"
    /\ aliasOps[3][3] # aliasOps[1][3]
    /\ DOMAIN Loaded.val = {"a", "b"}
    /\ Loaded.val["a"] = aliasOps[3][3]
    /\ Loaded.val["b"] = aliasOps[2][3]

(***************************************************************************)
(* C13: get_fetcher selects the VCS fetcher exactly for the locators that  *)
(* begin with git@, git://, http:// or https://, and the local-path        *)
(* passthrough for every other string.                                     *)
(***************************************************************************)
VcsPrefixes == {"git@", "git://", "http://", "https://"}

C13_ClassifierByPrefix ==
    rFetcher # "" =>
        (rFetcher = "GitFetcher"
            <=> \E prefix \in VcsPrefixes : StartsWith(rConfig.val.project_root, prefix))

(***************************************************************************)
(* C17: the entries of the alias map change only in the step that follows  *)
(* a run whose container exited with status zero, when project_root was    *)
(* not itself an alias and --alias was given, and then only the entry of   *)
(* that name changes, to the configuration that was run; when project_root *)
(* is an alias, the configuration run is the stored one (with the refresh  *)
(* of the command line) and the map stays as it was.                       *)
(***************************************************************************)
AliasEntries(file) == IF file = None THEN {} ELSE file.val

C17_AliasOnlyOnSuccess ==
    [][ /\ AliasEntries(aliasFile') # AliasEntries(aliasFile) =>
             /\ rContainer = "exited_zero"
             /\ rResult' = Ok("()")
             /\ ~rFromAlias
             /\ rArgs.alias # None
             /\ AliasEntries(aliasFile') =
                   {e \in AliasEntries(aliasFile) : e[1] # rArgs.alias.val}
                      \cup {<<rArgs.alias.val, rConfig.val>>}
        /\ rFromAlias' =>
             /\ \E e \in AliasEntries(aliasFile') :
                   /\ e[1] = rArgs.project_root
                   /\ rConfig'.val = [e[2] EXCEPT !.refresh = rArgs.refresh]
      ]_vars

C17_Witness ==
    /\ rPc = "exit"
    /\ rResult = Ok("()")
    /\ ~rFromAlias
    /\ rArgs.alias = Some("a")
    /\ <<"a", rConfig.val>> \in AliasEntries(aliasFile)
    /\ rConfig.val # StoredAlias

(***************************************************************************)
(* C19: when the timeout of a container run passes with the container      *)
(* still running, the container is terminated and the run returns the      *)
(* timed-out error; a container is terminated in no other case; and a run  *)
(* returns Ok only after its container exited with status zero, a non-zero *)
(* status giving the non-zero-exit error.                                  *)
(***************************************************************************)
C19_ContainerTimeout ==
    /\ (rPc = "exit" /\ rElapsed = "container") =>
          /\ rContainer = "terminated"
          /\ rResult = Err("Container execution timed out")
    /\ rContainer = "terminated" => (rElapsed = "container" /\ rConfig.val.timeout # None)
    /\ (rPc = "exit" /\ rResult = Ok("()")) => rContainer = "exited_zero"
    /\ (rPc = "exit" /\ rContainer = "exited_nonzero") => rResult = Err("Non-zero exit code")

C19_Witness ==
    /\ rPc = "exit"
    /\ rElapsed = "container"
    /\ rContainer = "terminated"
    /\ rResult = Err("Container execution timed out")
    /\ rArgs.alias # None

(***************************************************************************)
(* C20: when the 300 s of the image build pass with the build still        *)
(* running, the build subprocess is terminated, the error returned is a    *)
(* timeout error, and no container is started.                             *)
(***************************************************************************)
IsTimeoutError(r) == IsErr(r) /\ Contains(r.err, "timed out")

C20_ImageBuildTimeout ==
    (rPc = "exit" /\ rElapsed = "build") =>
        /\ rBuildProc = "terminated"
        /\ IsTimeoutError(rResult)
        /\ rContainer = "none"

(***************************************************************************)
(* C21: the restore of the default branch issues, in this order,           *)
(* symbolic-ref, a checkout of the branch that the remote's symbolic HEAD  *)
(* names (when symbolic-ref printed one), `checkout main`, `checkout       *)
(* master`: each later attempt is issued only after the one before it      *)
(* exited non-zero, nothing of the restore follows a checkout that exited  *)
(* zero, and the restore's own error is returned only when `checkout       *)
(* master` exited non-zero after `checkout main` did and after the         *)
(* symbolic HEAD gave no branch that could be checked out.                 *)
(***************************************************************************)
RestoreIdx == LogIdx("swap_back_to_latest")

\* the attempt that step i of the restore belongs to
AttemptOf(i) ==
    CASE fLog[i].argv[1] = "symbolic-ref" -> 1
      [] IsDetectedBranchCheckout(i) -> 1
      [] fLog[i].argv = <<"checkout", "main">> -> 2
      [] OTHER -> 3

\* attempt 1 is over without a branch checked out
HeadAttemptFailed(i) ==
    \/ fLog[i].argv[1] = "symbolic-ref" /\ fLog[i].status # "ok"
    \/ IsDetectedBranchCheckout(i) /\ fLog[i].status = "fail"

C21_RestoreOrder ==
    fExisted =>
        /\ \A i \in RestoreIdx :
              \* the restore is the first thing, and begins with symbolic-ref
              /\ i <= 4
              /\ (i = 1) = (fLog[i].argv[1] = "symbolic-ref")
              \* the branch checked out first is the one the symbolic HEAD names
              /\ IsDetectedBranchCheckout(i) =>
                    fLog[i].argv = <<"checkout", remote.default>>
              /\ (i = 2 /\ fLog[1].status = "ok") => IsDetectedBranchCheckout(i)
              \* main follows a failed first attempt, master a failed main
              /\ AttemptOf(i) = 2 => HeadAttemptFailed(i - 1)
              /\ AttemptOf(i) = 3 =>
                    /\ fLog[i].argv = <<"checkout", "master">>
                    /\ AttemptOf(i - 1) = 2
                    /\ fLog[i - 1].status = "fail"
              \* it stops at the first checkout that exits zero
              /\ (fLog[i].argv[1] = "checkout" /\ fLog[i].status = "ok") =>
                    /\ i + 1 \notin RestoreIdx
                    /\ fPc \notin {"swap_head", "swap_main", "swap_master"}
        /\ fResult = Err("Failed to checkout default branch") =>
              /\ Len(fLog) \in RestoreIdx
              /\ AttemptOf(Len(fLog)) = 3
              /\ fLog[Len(fLog)].status = "fail"

C21_Witness ==
    /\ fExisted
    /\ Len(fLog) = 4
    /\ fLog[1].argv[1] = "symbolic-ref" /\ fLog[1].status = "ok"
    /\ fLog[2].argv = <<"checkout", "trunk">> /\ fLog[2].status = "fail"
    /\ fLog[3].argv = <<"checkout", "main">> /\ fLog[3].status = "fail"
    /\ fLog[4].argv = <<"checkout", "master">> /\ fLog[4].status = "fail"
    /\ fResult = Err("Failed to checkout default branch")

(***************************************************************************)
(* C22 as claimed: a fetch of "latest" on an existing cache entry that     *)
(* returns a working tree leaves HEAD on the remote's default branch,      *)
(* whatever was checked out before, and has issued no checkout of a        *)
(* version.                                                                *)
(***************************************************************************)
LatestOnExisting == ReturnedOk /\ fExisted /\ fVersion = "latest"

C22_LatestOnDefault_Claimed ==
    LatestOnExisting =>
        /\ repos[fPath].head = remote.default
        /\ LogIdx("checkout_version") = {}

\* the branch that the restore checked out
RestoredBranch == fLog[CHOOSE i \in RestoreOkIdx : TRUE].argv[2]

(***************************************************************************)
(* C22 as amended: such a fetch has issued no checkout of a version and    *)
(* leaves HEAD on the branch that the restore checked out, never on the    *)
(* tag pinned before: the remote's default branch when symbolic-ref        *)
(* printed it and its checkout exited zero, otherwise `main`, or `master`  *)
(* when the checkout of `main` exited non-zero as well.                    *)
(***************************************************************************)
C22_LatestOnDefault ==
    LatestOnExisting =>
        /\ LogIdx("checkout_version") = {}
        /\ Cardinality(RestoreOkIdx) = 1
        /\ repos[fPath].head = RestoredBranch
        /\ repos[fPath].head \in remote.branches
        /\ \A i \in RestoreOkIdx :
              /\ IsDetectedBranchCheckout(i) => RestoredBranch = remote.default
              /\ ~IsDetectedBranchCheckout(i) => RestoredBranch \in {"main", "master"}
              /\ (RestoredBranch = "master" /\ ~IsDetectedBranchCheckout(i)) =>
                    fLog[i - 1].argv = <<"checkout", "main">> /\ fLog[i - 1].status = "fail"

C22_Witness ==
    /\ LatestOnExisting
    /\ fHead0 = "v1"
    /\ remote.default = "trunk"
    /\ repos[fPath].head = "trunk"
    /\ Len(fLog) = 2

(***************************************************************************)
(* C23: when the target directory did not exist, whatever refresh is, the  *)
(* fetch issues no restore and no pull; what it issues is, in this order,  *)
(* create_dir_all on the parent (when the parent is absent), clone of the  *)
(* locator into the target, fetch --tags, and a checkout of the version    *)
(* unless the version is "latest", each step only after the one before it  *)
(* succeeded; a fetch that returns a working tree has issued all of them.  *)
(***************************************************************************)
\* the commands of a fetch into an absent target that runs to its end
ClonePlan(withMkdir) ==
    (IF withMkdir THEN << <<"create_dir_all", PathParent(fPath)>> >> ELSE <<>>)
    \o << <<"clone", fUrl, fPath>>, <<"fetch", "--tags">> >>
    \o (IF fVersion # "latest" THEN << <<"checkout", fVersion>> >> ELSE <<>>)

LogArgv == [i \in 1..Len(fLog) |-> fLog[i].argv]

IsPrefix(xs, ys) == Len(xs) <= Len(ys) /\ xs = SubSeq(ys, 1, Len(xs))

ClonedNow == fPc # "idle" /\ fPath # "" /\ ~fExisted

C23_CloneSequence ==
    ClonedNow =>
        /\ LogIdx("swap_back_to_latest") = {}
        /\ LogIdx("pull_repo") = {}
        /\ \E withMkdir \in BOOLEAN :
              /\ IsPrefix(LogArgv, ClonePlan(withMkdir))
              /\ ReturnedOk => LogArgv = ClonePlan(withMkdir)
        /\ \A i \in 1..Len(fLog) - 1 : fLog[i].status = "ok"

C23_Witness ==
    /\ ClonedNow
    /\ ReturnedOk
    /\ fRefresh
    /\ Len(fLog) = 4
    /\ fLog[1].argv[1] = "create_dir_all"
    /\ fLog[2].argv[1] = "clone"
    /\ fLog[3].argv = <<"fetch", "--tags">>
    /\ fLog[4].argv = <<"checkout", "v1">>

(***************************************************************************)
(* C24 as claimed: within one fetch no command is issued twice with the    *)
(* same arguments.                                                         *)
(***************************************************************************)
C24_NoCommandTwice_Claimed ==
    \A i, j \in 1..Len(fLog) : fLog[i].argv = fLog[j].argv => i = j

\* step j repeats the checkout of step i as the restore's fallback: the
\* symbolic HEAD named main or master and the checkout of it exited non-zero
IsFallbackRepeat(i, j) ==
    /\ IsDetectedBranchCheckout(i)
    /\ fLog[i].status = "fail"
    /\ fLog[j].fn = "swap_back_to_latest"
    /\ fLog[j].argv[2] \in {"main", "master"}
    /\ j = i + (IF fLog[j].argv[2] = "main" THEN 1 ELSE 2)

\* step j is the checkout of the requested version, which names a branch
\* that the restore has tried at step i
IsVersionRepeat(i, j) ==
    /\ fLog[i].fn = "swap_back_to_latest"
    /\ fLog[j].fn = "checkout_version"
    /\ j = Len(fLog)

(***************************************************************************)
(* C24 as amended: within one fetch clone, pull, fetch --tags and          *)
(* symbolic-ref are issued at most once each and checkout_version issues   *)
(* at most one checkout.  A `git checkout <branch>` is issued again with   *)
(* the same branch only (a) by the restore's fallback to `main` or         *)
(* `master`, when the symbolic HEAD named that branch and the checkout of  *)
(* it exited non-zero, and (b) by the checkout of the requested version,   *)
(* when the version is a branch that the restore tried.                    *)
(***************************************************************************)
C24_NoCommandTwice ==
    \A i, j \in 1..Len(fLog) :
        (i < j /\ fLog[i].argv = fLog[j].argv) =>
            /\ fLog[i].argv[1] = "checkout"
            /\ IsFallbackRepeat(i, j) \/ IsVersionRepeat(i, j)

C24_Witness ==
    /\ Len(fLog) = 3
    /\ fLog[1].argv[1] = "symbolic-ref" /\ fLog[1].status = "ok"
    /\ fLog[2].argv = <<"checkout", "main">> /\ fLog[2].status = "fail"
    /\ fLog[3].argv = <<"checkout", "main">> /\ fLog[3].status = "ok"

(***************************************************************************)
(* C25: nothing serializes two invocations that fetch the same cache key:  *)
(* an invocation can call fetch while the other one is anywhere inside its *)
(* own fetch, and every next step of a fetch can be taken wherever the     *)
(* other fetch stands.  When a fetch returns a working tree whose HEAD is  *)
(* not the version it requested, the other invocation works on the same    *)
(* directory and is the one that moved HEAD there, by a checkout that      *)
(* exited zero.                                                            *)
(***************************************************************************)
InsideFetch(pc) == pc \notin {"idle", "done"}

OtherCheckedOut(name) ==
    \E i \in 1..Len(fOther.log) :
        /\ fOther.log[i].argv = <<"checkout", name>>
        /\ fOther.log[i].status = "ok"

C25_UnserializedFetches ==
    /\ (fPc = "idle" /\ InsideFetch(fOther.pc)) =>
          \A key \in {RaceKey}, version \in RaceVersions, refresh \in BOOLEAN :
              ENABLED RaceFetchCall(key, version, refresh)
    /\ (ReturnedOk /\ fVersion # "latest" /\ repos[fPath].head # fVersion) =>
          /\ fOther.path = fPath
          /\ OtherCheckedOut(repos[fPath].head)
          /\ fLog[Len(fLog)].argv = <<"checkout", fVersion>>
          /\ fLog[Len(fLog)].status = "ok"

\* both invocations have returned a working tree, one asked for v1, the
\* other for v2, and the shared tree is on v2
C25_Witness ==
    /\ ReturnedOk
    /\ fVersion = "v1"
    /\ fOther.pc = "done"
    /\ IsOk(fOther.result)
    /\ fOther.version = "v2"
    /\ fOther.result.val = fResult.val
    /\ repos[fResult.val].head = "v2"

(***************************************************************************)
(* C26 as claimed: for every regular file that the walk visits, a .py file *)
(* is a candidate with interpreter /usr/bin/env python, at priority 0 if   *)
(* its contents hold a __main__ guard (double- or single-quoted) and at    *)
(* priority 2 otherwise, shebang or not; any other file is a candidate iff *)
(* its first line starts with #!, at priority 1 and with the trimmed text  *)
(* after #! as interpreter; no other file is a candidate.                  *)
(***************************************************************************)
HasMainGuard(f) ==
    \/ Contains(f.content, "if __name__ == \"__main__\":")
    \/ Contains(f.content, "if __name__ == '__main__':")

IsPy(f) == EndsWith(f.path, ".py")

\* the text of f up to its first newline
LineOne(f) ==
    IF \E i \in 1..Len(f.content) : SubSeq(f.content, i, i) = "\n"
    THEN SubSeq(f.content, 1,
                (CHOOSE i \in 1..Len(f.content) :
                    /\ SubSeq(f.content, i, i) = "\n"
                    /\ \A j \in 1..(i - 1) : SubSeq(f.content, j, j) # "\n") - 1)
    ELSE f.content

AfterShebang(line) == Trim(SubSeq(line, 3, Len(line)))

ClaimedCandidate(f) ==
    IF IsPy(f)
    THEN << <<f.path, "/usr/bin/env python", IF HasMainGuard(f) THEN 0 ELSE 2>> >>
    ELSE IF StartsWith(LineOne(f), "#!")
    THEN << <<f.path, AfterShebang(LineOne(f)), 1>> >>
    ELSE <<>>

RECURSIVE FlatMap(_, _)
FlatMap(Op(_), xs) ==
    IF Len(xs) = 0 THEN <<>> ELSE Op(Head(xs)) \o FlatMap(Op, Tail(xs))

C26_CandidateRule_Claimed ==
    bPc # "start" => Candidates = FlatMap(ClaimedCandidate, Visited(bRoot, bFiles))

(***************************************************************************)
(* C26 as amended: a visited .py file is always a candidate with           *)
(* interpreter /usr/bin/env python: at priority 0 if it can be read as     *)
(* UTF-8 text and holds a __main__ guard, at priority 2 if it can be read  *)
(* and holds none, and at priority 3 if it cannot be read as UTF-8 text;   *)
(* a shebang in it changes nothing.  Any other file is a candidate iff its *)
(* first line is UTF-8 and, with the whitespace around it trimmed, starts  *)
(* with #!, at priority 1 and with the trimmed text after #! as            *)
(* interpreter.  No other file is a candidate.                             *)
(***************************************************************************)
AmendedCandidate(f) ==
    IF IsPy(f)
    THEN << <<f.path, "/usr/bin/env python",
              IF ~f.utf8 THEN 3 ELSE IF HasMainGuard(f) THEN 0 ELSE 2>> >>
    ELSE IF f.utf8 /\ StartsWith(Trim(LineOne(f)), "#!")
    THEN << <<f.path, AfterShebang(Trim(LineOne(f))), 1>> >>
    ELSE <<>>

C26_CandidateRule ==
    bPc # "start" => Candidates = FlatMap(AmendedCandidate, Visited(bRoot, bFiles))

C26_Witness ==
    /\ bPc = "analysed"
    /\ Candidates = << <<"tool.py", "/usr/bin/env python", 2>>,
                       <<"blob.py", "/usr/bin/env python", 3>>,
                       <<"start", "/bin/sh", 1>> >>

(***************************************************************************)
(* C27 as claimed: with no marker file and no type override, the type that *)
(* analyse_project resolves for the files of a directory is the same for   *)
(* every order in which the walk yields them.                              *)
(***************************************************************************)
\* the orders in which a walk can yield the files xs
OrdersOf(xs) ==
    { [i \in 1..Len(xs) |-> xs[p[i]]] : p \in Permutations(1..Len(xs)) }

TypeIn(order) == analyse_project(bRoot, order, bPkg, bReq).ptype

NoMarkerNoOverride == bPc = "analysed" /\ MarkerType = "Other"

C27_TypeOrderFree_Claimed ==
    NoMarkerNoOverride => \A order \in OrdersOf(bFiles) : TypeIn(order) = builder.ptype

\* the types that the extensions of the visited files map to
MappedTypes == {TypeOfExtension(VisitedPaths[i]) : i \in TypedVisits}

(***************************************************************************)
(* C27 as amended: with no marker file and no type override the resolved   *)
(* type is the one mapped from the extension of the first visited file     *)
(* that has a mapped extension.  It is the same for every order of the     *)
(* walk exactly when the mapped extensions of the visited files all map to *)
(* one type, or none is mapped (the type is then Other); otherwise each of *)
(* the mapped types is the result of some order.                           *)
(***************************************************************************)
C27_TypeOrderFree ==
    NoMarkerNoOverride =>
        /\ \A order \in OrdersOf(bFiles) :
              TypeIn(order) \in (IF MappedTypes = {} THEN {"Other"} ELSE MappedTypes)
        /\ \A t \in MappedTypes : \E order \in OrdersOf(bFiles) : TypeIn(order) = t
        /\ (\A order \in OrdersOf(bFiles) : TypeIn(order) = builder.ptype)
              <=> Cardinality(MappedTypes) <= 1

C27_Witness ==
    /\ NoMarkerNoOverride
    /\ bRoot = "/w/proj"
    /\ Len(bFiles) = 2
    /\ bFiles[1].path = "run.sh"
    /\ bFiles[2].path = "main.py"
    /\ builder.ptype = "Shell"
    /\ TypeIn(Reverse(bFiles)) = "Python"

(***************************************************************************)
(* C28 as claimed: in every manifest built without overrides, type Python  *)
(* goes with interpreter /usr/bin/env python and type Node with            *)
(* /usr/bin/env node, so that the base image of the generated Dockerfile   *)
(* holds the interpreter of its ENTRYPOINT.                                *)
(***************************************************************************)
BuiltPlain == bPc \in {"built", "done"} /\ IsOk(bResult) /\ bArgs = NoArgs

C28_InterpreterMatchesType_Claimed ==
    BuiltPlain =>
        /\ bResult.val.ptype = "Python" => bResult.val.interpreter = "/usr/bin/env python"
        /\ bResult.val.ptype = "Node" => bResult.val.interpreter = "/usr/bin/env node"

\* the candidate that build adopted
Adopted == CHOOSE i \in 1..Len(Candidates) : Candidates[i][1] = bResult.val.entrypoint

BaseImageOf(ptype) ==
    IF ptype = "Python" THEN "python:3.11-alpine"
    ELSE IF ptype = "Node" THEN "node:alpine"
    ELSE "alpine"

(***************************************************************************)
(* C28 as amended: in a manifest built without overrides the interpreter   *)
(* is the one of the candidate adopted as entrypoint, whatever the type    *)
(* is (/usr/bin/env python when that candidate is a .py file); it is       *)
(* deduced from the type, and then agrees with it, only when there is no   *)
(* candidate, which without overrides means type Node, the entrypoint of   *)
(* package.json and /usr/bin/env node.  The generated Dockerfile takes its *)
(* base image from the type and its ENTRYPOINT from the interpreter,       *)
(* without a leading "/usr/bin/env ".                                      *)
(***************************************************************************)
C28_InterpreterMatchesType ==
    BuiltPlain =>
        /\ IF Len(Candidates) = 0
           THEN /\ bResult.val.ptype = "Node"
                /\ bResult.val.interpreter = "/usr/bin/env node"
           ELSE /\ \E i \in 1..Len(Candidates) : Candidates[i][1] = bResult.val.entrypoint
                /\ bResult.val.interpreter = Candidates[Adopted][2]
                /\ EndsWith(bResult.val.entrypoint, ".py") =>
                      bResult.val.interpreter = "/usr/bin/env python"
        /\ (bPc = "done" /\ IsOk(bExit)) =>
              /\ bDisk.dockerfile.val.from = BaseImageOf(bResult.val.ptype)
              /\ bDisk.dockerfile.val.entrypoint[2] = bResult.val.entrypoint
              /\ bResult.val.interpreter \in
                    { bDisk.dockerfile.val.entrypoint[1],
                      "/usr/bin/env " \o bDisk.dockerfile.val.entrypoint[1] }

C28_Witness ==
    /\ BuiltPlain
    /\ bPc = "done"
    /\ IsOk(bExit)
    /\ bResult.val.ptype = "Node"
    /\ bResult.val.interpreter = "/usr/bin/env python"
    /\ bDisk.dockerfile.val.from = "node:alpine"
    /\ bDisk.dockerfile.val.entrypoint = <<"python", "main.py">>

(***************************************************************************)
(* C29: the candidates and the type that analyse_project collects for the  *)
(* files of a directory are the same whatever the base name of the project *)
(* root is; a root whose own name starts with '.' is walked like any       *)
(* other.                                                                  *)
(***************************************************************************)
C29_RootNameIrrelevant ==
    bPc = "analysed" =>
        \A root \in Roots :
            LET other == analyse_project(root, bFiles, bPkg, bReq) IN
            /\ other.executables = Candidates
            /\ other.ptype = builder.ptype

(***************************************************************************)
(* C30 as claimed: when a fetch on an existing cache entry fails after the *)
(* restore has succeeded (in pull, fetch --tags or the checkout of the     *)
(* version), the working tree is left on the remote's default branch.      *)
(***************************************************************************)
FailedAfterRestore == fExisted /\ Returned /\ IsErr(fResult) /\ RestoreOkIdx # {}

C30_FailedFetchOnDefault_Claimed ==
    FailedAfterRestore => repos[fPath].head = remote.default

(***************************************************************************)
(* C30 as amended: such a fetch leaves the working tree on the branch that *)
(* the restore checked out, which is the remote's default branch when      *)
(* symbolic-ref printed it and its checkout exited zero, and `main` or     *)
(* `master` otherwise; it is on the version pinned before the call, or on  *)
(* the requested version, only if that is this very branch.                *)
(***************************************************************************)
C30_FailedFetchOnDefault ==
    FailedAfterRestore =>
        /\ fLog[Len(fLog)].fn \in {"pull_repo", "fetch_tags", "checkout_version"}
        /\ fLog[Len(fLog)].status # "ok"
        /\ repos[fPath].head = RestoredBranch
        /\ repos[fPath].head \in remote.branches
        /\ \A i \in RestoreOkIdx :
              IF IsDetectedBranchCheckout(i)
              THEN RestoredBranch = remote.default
              ELSE RestoredBranch \in {"main", "master"}
        /\ repos[fPath].head = fHead0 => fHead0 = RestoredBranch
        /\ repos[fPath].head = fVersion => fVersion = RestoredBranch

C30_Witness ==
    /\ FailedAfterRestore
    /\ fHead0 = "v1"
    /\ fVersion = "v2"
    /\ fResult = Err("Failed to checkout version")
    /\ remote.default = "trunk"
    /\ repos[fPath].head = "trunk"

====
